---- MODULE Spec2Model ----
(***************************************************************************)
(* AeroVision review server: the aggregated review service                 *)
(* (app/services/review_service.py), the sub-task services it drives and   *)
(* the base service they share, as a state machine.                        *)
(*                                                                         *)
(* Python values are modelled as tagged records so that None, images,      *)
(* strings and result objects can be compared with each other.  Floats in  *)
(* [0, 1] are modelled as integer percentages 0..100.                      *)
(***************************************************************************)
EXTENDS Integers, Sequences, FiniteSets, TLC

VARIABLES
    pc,                  \* position of the request being served
    image_input,         \* review(): the raw input
    include,             \* the four include_* flags, by sub-task name
    image,               \* review(): the loaded image
    quality_result,      \* review(): the four sub-results
    aircraft_result,
    airline_result,
    registration_result,
    ret,                 \* the value the call returned (None until it returns)
    raised,              \* the exception the call raised (None if none)
    loadCalls,           \* number of load_image invocations of this request
    adapterCalls,        \* per sub-task, the argument lists its adapter was invoked with
    outcomes,            \* review(): per sub-task, how its adapter behaved ("unset": not invoked)
    image_inputs,        \* review_batch(): the raw inputs
    loaded_results,      \* review_batch(): per index, load_image_async's (image, error)
    taskState,           \* review_batch(): per sub-task, position of its coroutine
    taskResult,          \* review_batch(): per sub-task, what gather() received
    results,             \* review_batch(): the list being built
    s_routine,           \* batch routine under test: which routine
    s_images,            \* batch routine: its images argument
    s_results,           \* batch routine: its results list
    s_batch,             \* _classify_batch: what classifier.predict returned
    s_futures,           \* _recognize_batch: per index, the future's state
    s_i,                 \* batch routine: loop position
    callThreads,         \* per sub-task, the kinds of thread its adapter was invoked on
    INFERENCE_AVAILABLE, \* factory module: whether aerovision_inference was importable
    f_imported,          \* factory module: whether its import has run
    f_instance,          \* InferenceFactory: per adapter type, the cached instance
    f_lock,              \* InferenceFactory: per adapter type, the thread holding its lock (0: free)
    f_constructed,       \* per adapter type, the outcomes of its constructor runs, in order
    f_wasReset,          \* whether reset() was ever called
    f_pc,                \* per thread, its position in a factory call
    f_call,              \* per thread, the factory call it is making
    f_ret,               \* per thread, what its factory call returned or raised
    store,               \* the shared counter store: the four stats:* keys
    store_up,            \* whether the store is reachable
    now,                 \* time.time()
    applied,             \* increments the store executed since the last reset
    cleared,             \* whether an executed reset has found a counter to delete
    attempts,            \* increment_request_count calls made so far
    st_pc,               \* per worker process, its position in get_request_stats
    st_snap,             \* per worker, what its read pipeline returned
    st_ret,              \* per worker, what its last get_request_stats returned
    st_raised,           \* per worker, an exception that left a stats call
    rt_pc,               \* per worker, its position in a review route handler
    rt_call,             \* per worker, the endpoint its handler serves
    rt_counted,          \* per worker, the increment_request_count calls of its handler, in order
    rt_ret,              \* per worker, what its handler returned or raised
    h_pc,                \* HistoryService.push_records: its position
    records,             \* push_records: its argument, one entry per record
    h_i,                 \* push_records: the number of records the loop has processed
    added_count,         \* push_records: added_count
    failed_count,        \* push_records: failed_count
    h_ret,               \* push_records: what it returned or raised
    p_task,              \* per batch request and sub-task, the state of its default-executor job
    p_n,                 \* per batch request, its number of loaded images
    p_ocr,               \* per batch request, the jobs of the executor _recognize_batch created
    l_busy               \* whether the event loop thread is inside a synchronous review()

vars == <<pc, image_input, include, image, quality_result, aircraft_result,
          airline_result, registration_result, ret, raised, loadCalls,
          adapterCalls, outcomes, image_inputs, loaded_results, taskState, taskResult,
          results, s_routine, s_images, s_results, s_batch, s_futures, s_i,
          callThreads, INFERENCE_AVAILABLE, f_imported, f_instance, f_lock,
          f_constructed, f_wasReset, f_pc, f_call, f_ret,
          store, store_up, now, applied, cleared, attempts, st_pc, st_snap, st_ret, st_raised,
          rt_pc, rt_call, rt_counted, rt_ret,
          h_pc, records, h_i, added_count, failed_count, h_ret,
          p_task, p_n, p_ocr, l_busy>>

reviewVars == <<image_input, image, quality_result, aircraft_result,
                airline_result, registration_result, outcomes>>
batchVars == <<image_inputs, loaded_results, taskState, taskResult, results>>
subVars == <<s_routine, s_images, s_results, s_batch, s_futures, s_i>>
factoryVars == <<INFERENCE_AVAILABLE, f_imported, f_instance, f_lock, f_constructed,
                 f_wasReset, f_pc, f_call, f_ret>>
statsVars == <<store, store_up, now, applied, cleared, attempts, st_pc, st_snap, st_ret, st_raised>>
routeVars == <<rt_pc, rt_call, rt_counted, rt_ret>>
historyVars == <<h_pc, records, h_i, added_count, failed_count, h_ret>>
poolVars == <<p_task, p_n, p_ocr, l_busy>>
otherVars == <<routeVars, historyVars, poolVars>>

-----------------------------------------------------------------------------
(* Values *)

Tasks == {"quality", "aircraft", "airline", "registration"}

TaskOrder == <<"quality", "aircraft", "airline", "registration">>

None == [tag |-> "None"]

Str(s) == [tag |-> "str", val |-> s]

Image(px) == [tag |-> "Image", px |-> px]

Ok(v) == [ok |-> TRUE, val |-> v]

Raise(type, msg) == [ok |-> FALSE, exc |-> [tag |-> "Exception", type |-> type, msg |-> msg]]

Tuple(v) == [tag |-> "tuple", fst |-> v]

\* Bound on the length of a batch request's input list.
MaxBatch == 2

\* Bound on the number of threads that call the InferenceFactory.
MaxThreads == 2

Threads == 1..MaxThreads

\* A thread that is not in a factory call.
NoCall == [op |-> "none", adapter |-> "none", step |-> 0]

\* The batch requests in flight at the same time.
MaxRequests == 2

Requests == 1..MaxRequests

\* The jobs of a ThreadPoolExecutor by state: none submitted.
NoJobs == [queued |-> 0, running |-> 0, done |-> 0]

\* The worker processes of the deployment, each with its own RedisStatsManager.
Workers == {"w1", "w2"}

\* The keys of the counter store, without their "stats:" prefix.
Keys == {"request_count", "success_count", "error_count", "start_time"}

NoIncrements == [request_count |-> 0, success_count |-> 0, error_count |-> 0]

\* Bound on the number of increment_request_count calls.
MaxIncrements == 2

\* Bound on the clock.
MaxTime == 1

\* Raw inputs: a URL, a data-URL payload or raw base64, whose content is a
\* decodable picture (A, B), bytes that are no picture, or (URL) a failing fetch.
AllInputs ==
    {[form |-> "url", body |-> b] : b \in {"A", "B", "garbage", "http_error"}}
    \cup {[form |-> "data", body |-> b] : b \in {"A", "garbage"}}
    \cup {[form |-> "raw", body |-> b] : b \in {"B", "garbage"}}

\* The inputs a batch request draws from: two pictures, a payload that raises
\* ImageLoadError and a URL whose body raises another exception type.
BatchInputs ==
    {[form |-> "url", body |-> "A"], [form |-> "raw", body |-> "B"],
     [form |-> "raw", body |-> "garbage"], [form |-> "url", body |-> "garbage"]}

AllFlags == [Tasks -> BOOLEAN]

\* What one adapter invocation can do: return a valid raw result, raise,
\* return a raw result the schema wrapper rejects, or (a stubbed service
\* method) return nothing.
AdapterOutcomes == {"ok", "raise", "invalid", "none"}

-----------------------------------------------------------------------------
(* BaseService *)

_load_from_url(url) ==
    CASE url.body = "http_error" ->
            Raise("ImageLoadError", "Failed to load image from URL")
      [] url.body = "garbage" ->
            Raise("UnidentifiedImageError", "cannot identify image file")
      [] OTHER -> Ok(Image(url.body))

_load_from_base64(data) ==
    IF data.body = "garbage"
    THEN Raise("ImageLoadError", "Failed to decode base64 image")
    ELSE Ok(Image(data.body))

load_image(input) ==
    CASE input.form = "url" -> _load_from_url(input)
      [] input.form = "data" -> _load_from_base64(input)
      [] OTHER ->
            IF _load_from_base64(input).ok
            THEN _load_from_base64(input)
            ELSE Raise("ImageLoadError", "Cannot load image from input")

\* safe_execute(func, *args): func's value, or the default None when it raises.
safe_execute(call) == IF call.ok THEN call.val ELSE None

\* Python truthiness of what safe_execute returned (None or a 2-tuple).
Truthy(v) == v # None

-----------------------------------------------------------------------------
(* Sub-task services: one invocation on a loaded image *)

\* wrap_quality_result(assessor.assess(image)): QualityResult with details.
QualityResultOf(img) ==
    [tag |-> "QualityResult", score |-> 85, pass_ |-> TRUE,
     details |-> [tag |-> "QualityDetails", of |-> img.px]]

\* wrap_aircraft_result / wrap_airline_result (classifier.predict(image)).
ClassResultOf(task, img) ==
    [tag |-> IF task = "aircraft" THEN "AircraftResult" ELSE "AirlineResult",
     top1 |-> [class_ |-> <<task, img.px>>, confidence |-> 92]]

\* wrap_registration_result(ocr.recognize(image)).
RegistrationResultOf(img) ==
    [tag |-> "RegistrationResult", registration |-> <<"reg", img.px>>,
     confidence |-> 95]

ResultOf(task, img) ==
    CASE task = "quality" -> QualityResultOf(img)
      [] task = "registration" -> RegistrationResultOf(img)
      [] OTHER -> ClassResultOf(task, img)

\* What the inference object (assessor.assess, classifier.predict,
\* ocr.recognize) hands back for one image when it does not raise: a raw
\* dict, acceptable to the schema wrapper or not, or None.
Raw(task, img, o) ==
    IF o = "none"
    THEN None
    ELSE [tag |-> "raw", task |-> task, px |-> img.px, valid |-> (o = "ok")]

\* wrap_quality_result / wrap_aircraft_result / wrap_airline_result /
\* wrap_registration_result: model_validate raises on a raw result the schema
\* rejects (None included: it has no .get).
_result_wrapper(raw) ==
    IF raw # None /\ raw.valid
    THEN Ok(ResultOf(raw.task, Image(raw.px)))
    ELSE Raise("ValidationError", "wrapper")

\* _assess_image / _classify_image / _recognize_image on a loaded image, the
\* adapter behaving as `o`: a (result, timing) tuple, an exception (the
\* adapter's own, or the wrapper's), or None from a stubbed method.
InvokeImage(task, img, o) ==
    CASE o = "none" -> Ok(None)
      [] o = "raise" -> Raise("RuntimeError", task)
      [] OTHER ->
            IF _result_wrapper(Raw(task, img, o)).ok
            THEN Ok(Tuple(_result_wrapper(Raw(task, img, o)).val))
            ELSE _result_wrapper(Raw(task, img, o))

-----------------------------------------------------------------------------
(* Review schemas (app/schemas/review.py) *)

ReviewQualityResult(score, pass_, details) ==
    [tag |-> "ReviewQualityResult", score |-> score, pass_ |-> pass_,
     details |-> details]

ReviewAircraftResult(type_code, confidence) ==
    [tag |-> "ReviewAircraftResult", type_code |-> type_code,
     confidence |-> confidence]

ReviewAirlineResult(airline_code, confidence) ==
    [tag |-> "ReviewAirlineResult", airline_code |-> airline_code,
     confidence |-> confidence]

ReviewRegistrationResult(registration, confidence, clarity) ==
    [tag |-> "ReviewRegistrationResult", registration |-> registration,
     confidence |-> confidence, clarity |-> clarity]

DefaultQuality == ReviewQualityResult(0, FALSE, None)

\* The aircraft default with the wrappers' fallback class name.
DefaultAircraft_blank == ReviewAircraftResult("", 0)

DefaultAircraft == ReviewAircraftResult("UNKNOWN", 0)

\* ReviewResult(...): quality and aircraft are required fields, airline and
\* registration are Optional; a None in a required field is a ValidationError.
ReviewResult(quality, aircraft, airline, registration) ==
    IF quality.tag = "ReviewQualityResult" /\ aircraft.tag = "ReviewAircraftResult"
    THEN Ok([tag |-> "ReviewResult", quality |-> quality, aircraft |-> aircraft,
             airline |-> airline, registration |-> registration])
    ELSE Raise("ValidationError", "ReviewResult")

\* The Review* object built from a sub-service result.
ToReview(task, r) ==
    CASE task = "quality" -> ReviewQualityResult(r.score, r.pass_, r.details)
      [] task = "aircraft" -> ReviewAircraftResult(r.top1.class_, r.top1.confidence)
      [] task = "airline" -> ReviewAirlineResult(r.top1.class_, r.top1.confidence)
      [] OTHER -> ReviewRegistrationResult(r.registration, r.confidence, r.confidence)

-----------------------------------------------------------------------------
(* ReviewService.review *)

NoCalls == [t \in Tasks |-> <<>>]

Init ==
    /\ pc = "idle"
    /\ image_input = None
    /\ include = [t \in Tasks |-> TRUE]
    /\ image = None
    /\ quality_result = None
    /\ aircraft_result = None
    /\ airline_result = None
    /\ registration_result = None
    /\ ret = None
    /\ raised = None
    /\ loadCalls = 0
    /\ adapterCalls = NoCalls
    /\ outcomes = [t \in Tasks |-> "unset"]
    /\ image_inputs = <<>>
    /\ loaded_results = <<>>
    /\ taskState = [t \in Tasks |-> "off"]
    /\ taskResult = [t \in Tasks |-> None]
    /\ results = <<>>
    /\ s_routine = "none"
    /\ s_images = <<>>
    /\ s_results = <<>>
    /\ s_batch = None
    /\ s_futures = <<>>
    /\ s_i = 0
    /\ callThreads = [t \in Tasks |-> {}]
    /\ INFERENCE_AVAILABLE = FALSE
    /\ f_imported = FALSE
    /\ f_instance = [a \in Tasks |-> None]
    /\ f_lock = [a \in Tasks |-> 0]
    /\ f_constructed = [a \in Tasks |-> <<>>]
    /\ f_wasReset = FALSE
    /\ f_pc = [th \in Threads |-> "idle"]
    /\ f_call = [th \in Threads |-> NoCall]
    /\ f_ret = [th \in Threads |-> None]
    /\ store = [k \in Keys |-> None]
    /\ store_up = TRUE
    /\ now = 0
    /\ applied = NoIncrements
    /\ cleared = FALSE
    /\ attempts = 0
    /\ st_pc = [w \in Workers |-> "idle"]
    /\ st_snap = [w \in Workers |-> None]
    /\ st_ret = [w \in Workers |-> None]
    /\ st_raised = [w \in Workers |-> None]
    /\ rt_pc = [w \in Workers |-> "idle"]
    /\ rt_call = [w \in Workers |-> "none"]
    /\ rt_counted = [w \in Workers |-> <<>>]
    /\ rt_ret = [w \in Workers |-> None]
    /\ h_pc = "idle"
    /\ records = <<>>
    /\ h_i = 0
    /\ added_count = 0
    /\ failed_count = 0
    /\ h_ret = None
    /\ p_task = [r \in Requests |-> [t \in Tasks |-> "none"]]
    /\ p_n = [r \in Requests |-> 0]
    /\ p_ocr = [r \in Requests |-> NoJobs]
    /\ l_busy = FALSE

\* A client calls review(image_input, include_*).
ReviewCall ==
    /\ pc = "idle"
    /\ \E inp \in AllInputs, fl \in AllFlags :
          /\ image_input' = inp
          /\ include' = fl
    /\ pc' = "r_load"
    /\ UNCHANGED <<image, quality_result, aircraft_result, airline_result,
                   registration_result, ret, raised, loadCalls, adapterCalls, callThreads, outcomes>>
    /\ UNCHANGED <<batchVars, subVars, factoryVars, statsVars, otherVars>>

\* ReviewLoad with the load error swallowed: the call goes on to build a result.
ReviewLoad_swallow ==
    /\ pc = "r_load"
    /\ loadCalls' = loadCalls + 1
    /\ LET r == load_image(image_input) IN
          IF r.ok
          THEN /\ image' = r.val
               /\ pc' = "r_quality"
          ELSE /\ image' = image
               /\ pc' = "r_build"
    /\ UNCHANGED <<image_input, include, quality_result, aircraft_result,
                   airline_result, registration_result, ret, raised, adapterCalls, callThreads,
                   outcomes>>
    /\ UNCHANGED <<batchVars, subVars, factoryVars, statsVars, otherVars>>

\* image = self.load_image(image_input); a failure propagates to the caller.
ReviewLoad ==
    /\ pc = "r_load"
    /\ loadCalls' = loadCalls + 1
    /\ LET r == load_image(image_input) IN
          IF r.ok
          THEN /\ image' = r.val
               /\ pc' = "r_quality"
               /\ raised' = raised
          ELSE /\ image' = image
               /\ pc' = "r_raised"
               /\ raised' = r.exc
    /\ UNCHANGED <<image_input, include, quality_result, aircraft_result,
                   airline_result, registration_result, ret, adapterCalls, callThreads, outcomes>>
    /\ UNCHANGED <<batchVars, subVars, factoryVars, statsVars, otherVars>>

\* ReviewBlock with the default policy of the mandatory fields applied to
\* every field: a failed optional sub-task gets a placeholder.
ReviewBlock_placeholder(task, o) ==
    LET tup == safe_execute(InvokeImage(task, image, o)) IN
    IF Truthy(tup)
    THEN ToReview(task, tup.fst)
    ELSE CASE task = "airline" -> ReviewAirlineResult("UNKNOWN", 0)
           [] task = "registration" -> ReviewRegistrationResult("UNKNOWN", 0, 0)
           [] OTHER -> None

\* One `if include_x:` block of review(): safe_execute the sub-service on the
\* loaded image and build the Review* object when the returned tuple is truthy.
\* Gives the new value of the block's result variable (a disabled block leaves
\* it None).
ReviewBlock(task, o) ==
    LET tup == safe_execute(InvokeImage(task, image, o)) IN
    IF Truthy(tup) THEN ToReview(task, tup.fst) ELSE None

\* The adapter invocation log after the block of `task` ran.
LogCall(task, arg) == [adapterCalls EXCEPT ![task] = Append(@, arg)]

\* The thread log after the adapter of `task` was invoked on a thread of kind
\* `th`: "loop" is the event loop thread, on which the route handlers and
\* the coroutines run; "pool" is a worker thread of an executor.
OnThread(task, th) == [callThreads EXCEPT ![task] = @ \cup {th}]

\* The quality block without safe_execute: the adapter's exception leaves review().
ReviewQuality_unsafe ==
    /\ pc = "r_quality"
    /\ IF include["quality"]
       THEN \E o \in AdapterOutcomes :
               /\ adapterCalls' = LogCall("quality", <<image>>)
               /\ callThreads' = OnThread("quality", "loop")
               /\ outcomes' = [outcomes EXCEPT !["quality"] = o]
               /\ IF InvokeImage("quality", image, o).ok
                  THEN /\ quality_result' = ReviewBlock("quality", o)
                       /\ pc' = "r_aircraft"
                       /\ UNCHANGED raised
                  ELSE /\ raised' = InvokeImage("quality", image, o).exc
                       /\ pc' = "r_raised"
                       /\ UNCHANGED quality_result
       ELSE /\ pc' = "r_aircraft"
            /\ UNCHANGED <<quality_result, adapterCalls, callThreads, outcomes, raised>>
    /\ UNCHANGED <<image_input, include, image, aircraft_result, airline_result,
                   registration_result, ret, loadCalls>>
    /\ UNCHANGED <<batchVars, subVars, factoryVars, statsVars, otherVars>>

\* The quality block calling the public assess(image_input), which loads the
\* image again from the raw input.
ReviewQuality_reload ==
    /\ pc = "r_quality"
    /\ IF include["quality"]
       THEN \E o \in AdapterOutcomes :
               /\ quality_result' = ReviewBlock("quality", o)
               /\ adapterCalls' = LogCall("quality", <<image_input>>)
               /\ callThreads' = OnThread("quality", "loop")
               /\ outcomes' = [outcomes EXCEPT !["quality"] = o]
               /\ loadCalls' = loadCalls + 1
       ELSE UNCHANGED <<quality_result, adapterCalls, callThreads, outcomes, loadCalls>>
    /\ pc' = "r_aircraft"
    /\ UNCHANGED <<image_input, include, image, aircraft_result, airline_result,
                   registration_result, ret, raised>>
    /\ UNCHANGED <<batchVars, subVars, factoryVars, statsVars, otherVars>>

ReviewQuality ==
    /\ pc = "r_quality"
    /\ IF include["quality"]
       THEN \E o \in AdapterOutcomes :
               /\ quality_result' = ReviewBlock("quality", o)
               /\ adapterCalls' = LogCall("quality", <<image>>)
               /\ callThreads' = OnThread("quality", "loop")
               /\ outcomes' = [outcomes EXCEPT !["quality"] = o]
       ELSE UNCHANGED <<quality_result, adapterCalls, callThreads, outcomes>>
    /\ pc' = "r_aircraft"
    /\ UNCHANGED <<image_input, include, image, aircraft_result, airline_result,
                   registration_result, ret, raised, loadCalls>>
    /\ UNCHANGED <<batchVars, subVars, factoryVars, statsVars, otherVars>>

ReviewAircraft ==
    /\ pc = "r_aircraft"
    /\ IF include["aircraft"]
       THEN \E o \in AdapterOutcomes :
               /\ aircraft_result' = ReviewBlock("aircraft", o)
               /\ adapterCalls' = LogCall("aircraft", <<image>>)
               /\ callThreads' = OnThread("aircraft", "loop")
               /\ outcomes' = [outcomes EXCEPT !["aircraft"] = o]
       ELSE UNCHANGED <<aircraft_result, adapterCalls, callThreads, outcomes>>
    /\ pc' = "r_airline"
    /\ UNCHANGED <<image_input, include, image, quality_result, airline_result,
                   registration_result, ret, raised, loadCalls>>
    /\ UNCHANGED <<batchVars, subVars, factoryVars, statsVars, otherVars>>

ReviewAirline ==
    /\ pc = "r_airline"
    /\ IF include["airline"]
       THEN \E o \in AdapterOutcomes :
               /\ airline_result' = ReviewBlock("airline", o)
               /\ adapterCalls' = LogCall("airline", <<image>>)
               /\ callThreads' = OnThread("airline", "loop")
               /\ outcomes' = [outcomes EXCEPT !["airline"] = o]
       ELSE UNCHANGED <<airline_result, adapterCalls, callThreads, outcomes>>
    /\ pc' = "r_registration"
    /\ UNCHANGED <<image_input, include, image, quality_result, aircraft_result,
                   registration_result, ret, raised, loadCalls>>
    /\ UNCHANGED <<batchVars, subVars, factoryVars, statsVars, otherVars>>

ReviewRegistration ==
    /\ pc = "r_registration"
    /\ IF include["registration"]
       THEN \E o \in AdapterOutcomes :
               /\ registration_result' = ReviewBlock("registration", o)
               /\ adapterCalls' = LogCall("registration", <<image>>)
               /\ callThreads' = OnThread("registration", "loop")
               /\ outcomes' = [outcomes EXCEPT !["registration"] = o]
       ELSE UNCHANGED <<registration_result, adapterCalls, callThreads, outcomes>>
    /\ pc' = "r_build"
    /\ UNCHANGED <<image_input, include, image, quality_result, aircraft_result,
                   airline_result, ret, raised, loadCalls>>
    /\ UNCHANGED <<batchVars, subVars, factoryVars, statsVars, otherVars>>

\* The mandatory fields get their defaults when still None.
QualityOrDefault(q) == IF q = None THEN DefaultQuality ELSE q

AircraftOrDefault(a) == IF a = None THEN DefaultAircraft ELSE a

\* Build final result: defaults for the mandatory fields, then ReviewResult.
ReviewBuild ==
    /\ pc = "r_build"
    /\ LET r == ReviewResult(QualityOrDefault(quality_result),
                             AircraftOrDefault(aircraft_result),
                             airline_result, registration_result) IN
          IF r.ok
          THEN /\ ret' = r.val
               /\ raised' = raised
               /\ pc' = "r_done"
          ELSE /\ ret' = ret
               /\ raised' = r.exc
               /\ pc' = "r_raised"
    /\ UNCHANGED <<image_input, include, image, quality_result, aircraft_result,
                   airline_result, registration_result, loadCalls, adapterCalls, callThreads, outcomes>>
    /\ UNCHANGED <<batchVars, subVars, factoryVars, statsVars, otherVars>>

ReviewNext ==
    \/ ReviewCall
    \/ ReviewLoad
    \/ ReviewQuality
    \/ ReviewAircraft
    \/ ReviewAirline
    \/ ReviewRegistration
    \/ ReviewBuild

SpecReview == Init /\ [][ReviewNext]_vars

-----------------------------------------------------------------------------
(* Sub-task batch routines, as functions of the images list and of what the
   adapter does on each image (outs[i], read only where images[i] is loaded) *)

\* [(idx, img) for idx, img in enumerate(images) if img is not None], sorted:
\* the 1-based positions of the loaded images, ascending.
RECURSIVE ValidIndices(_, _)
ValidIndices(images, from) ==
    IF from > Len(images)
    THEN <<>>
    ELSE IF images[from] # None
         THEN <<from>> \o ValidIndices(images, from + 1)
         ELSE ValidIndices(images, from + 1)

\* batch_images: the loaded images, compacted, in index order.
BatchImages(images) ==
    LET indices == ValidIndices(images, 1)
    IN [k \in 1..Len(indices) |-> images[indices[k]]]

\* classifier.predict(list(batch_images)): one raw result per batch image, in
\* the order of the batch.
Predict(task, images, outs) ==
    LET indices == ValidIndices(images, 1)
    IN [k \in 1..Len(indices) |-> Raw(task, images[indices[k]], outs[indices[k]])]

\* results[idx] for one (idx, result) pair of zip(indices, batch_results):
\* the wrapped result, None when the raw result is None or the wrapper raises.
WrapSlot(raw) ==
    IF raw # None /\ _result_wrapper(raw).ok THEN _result_wrapper(raw).val ELSE None

\* ScatterIndex writing the k-th batch result to slot k of `results`.
ScatterIndex_compact(indices, k) == k

\* The slot of `results` that the k-th batch result is written to.
ScatterIndex(indices, k) == indices[k]

\* results = [None] * len(images); for idx, result in zip(indices, batch_results):
\* results[idx] = wrapped result.
Scatter(n, indices, batch_results) ==
    [i \in 1..n |->
        IF \E k \in 1..Len(indices) : k <= Len(batch_results) /\ ScatterIndex(indices, k) = i
        THEN WrapSlot(batch_results[CHOOSE k \in 1..Len(indices) :
                                        k <= Len(batch_results) /\ ScatterIndex(indices, k) = i])
        ELSE None]

\* _classify_batch(images): no loaded image, [None] * len(images) without a
\* call; else one predict call on the compacted batch (whose exception, when
\* `whole` is "raise", is the routine's), scattered back by index.
_classify_batch(task, images, outs, whole) ==
    LET indices == ValidIndices(images, 1)
    IN IF indices = <<>>
       THEN Ok([i \in 1..Len(images) |-> None])
       ELSE IF whole = "raise"
            THEN Raise("RuntimeError", task)
            ELSE Ok(Scatter(Len(images), indices, Predict(task, images, outs)))

\* One iteration of _assess_batch's loop, one recognize_with_index call: None
\* for a None slot, the sub-service's result, None when it raised (unpacking a
\* stubbed None raises too).
SlotResult(task, img, o) ==
    IF img = None
    THEN None
    ELSE IF InvokeImage(task, img, o).ok /\ InvokeImage(task, img, o).val # None
         THEN InvokeImage(task, img, o).val.fst
         ELSE None

\* _assess_batch(images) and _recognize_batch(images).
_slot_batch(task, images, outs) ==
    [i \in 1..Len(images) |-> SlotResult(task, images[i], outs[i])]

\* The adapter invocations a batch routine makes: one per loaded image
\* (quality, registration), or one on the compacted batch (classifiers).
\* A dispatch that fails (quality, registration: `whole` is "raise") makes none.
BatchCalls(task, images, whole) ==
    IF task \in {"aircraft", "airline"}
    THEN IF ValidIndices(images, 1) = <<>> THEN <<>> ELSE <<BatchImages(images)>>
    ELSE IF whole = "raise"
         THEN <<>>
         ELSE [k \in 1..Len(ValidIndices(images, 1)) |-> <<BatchImages(images)[k]>>]

\* What the coroutine of `task` hands to gather(): the routine's list, or the
\* exception of the routine or of the executor dispatch.
RunTask(task, images, outs, whole) ==
    IF task \in {"aircraft", "airline"}
    THEN _classify_batch(task, images, outs, whole)
    ELSE IF whole = "raise"
         THEN Raise("RuntimeError", task)
         ELSE Ok(_slot_batch(task, images, outs))

-----------------------------------------------------------------------------
(* ReviewService.review_batch *)

List(seq) == [tag |-> "list", items |-> seq]

Pending == [done |-> FALSE, image |-> None, error |-> None]

\* The (image, error) pair of a finished load.
Loaded(img, err) == [done |-> TRUE, image |-> img, error |-> err]

\* load_image_async catching ImageLoadError only, as the loaders of the
\* sub-services' own batch endpoints do.
load_image_async_narrow(input) ==
    IF load_image(input).ok
    THEN Ok(Loaded(load_image(input).val, None))
    ELSE IF load_image(input).exc.type = "ImageLoadError"
         THEN Ok(Loaded(None, Str(load_image(input).exc.msg)))
         ELSE load_image(input)

\* load_image_async(image_input): (image, None), or (None, str(e)) for an
\* ImageLoadError as for any other exception; nothing escapes it.
load_image_async(input) ==
    IF load_image(input).ok
    THEN Ok(Loaded(load_image(input).val, None))
    ELSE Ok(Loaded(None, Str(load_image(input).exc.msg)))

\* images taken from loaded_results in the reverse of the input order.
Images_reversed(loaded) == [i \in 1..Len(loaded) |-> loaded[Len(loaded) + 1 - i].image]

\* images = [r[0] for r in loaded_results]
Images(loaded) == [i \in 1..Len(loaded) |-> loaded[i].image]

\* image_errors = [r[1] for r in loaded_results]
ImageErrors(loaded) == [i \in 1..Len(loaded) |-> loaded[i].error]

\* The ways a per-image adapter invocation can fail inside a sub-task's batch
\* routine: a predict call that returns gives an unusable raw result or None
\* for the image; a per-image call may also raise.
FailureKinds(task) ==
    IF task \in {"aircraft", "airline"} THEN {"invalid", "none"} ELSE {"raise", "invalid", "none"}

\* Per-image adapter behaviours for a routine over `images`: the adapter
\* fails, in one of the ways open to it, on any subset of the loaded images.
\* Slots that hold None are not read and fixed to "ok".
OutsFor(task, images) ==
    LET valid == {i \in 1..Len(images) : images[i] # None}
    IN {[i \in 1..Len(images) |-> "ok"]}
       \cup {[i \in 1..Len(images) |-> IF i \in F THEN kind ELSE "ok"] :
                F \in (SUBSET valid) \ {{}}, kind \in FailureKinds(task)}

\* What a batch routine's run can be: the whole call raises, or it returns
\* with some per-image behaviours.
TaskBehaviours(task, images) ==
    {[whole |-> "raise", outs |-> [i \in 1..Len(images) |-> "ok"]]}
    \cup {[whole |-> "return", outs |-> f] : f \in OutsFor(task, images)}

\* results_map: a list for a task that returned, None for one whose result is
\* an exception; no entry for a task that was not enabled.
ResultsMap(inc, tres) ==
    [t \in {u \in Tasks : inc[u]} |-> IF tres[t].ok THEN List(tres[t].val) ELSE None]

\* results_map.get(name)
Get(map, name) == IF name \in DOMAIN map THEN map[name] ELSE None

\* xs[idx] if (xs is not None and idx < len(xs)) else None   (idx 0-based)
ResultAt(xs, idx) ==
    IF xs # None /\ idx < Len(xs.items) THEN xs.items[idx + 1] ELSE None

\* The Review* field of one item: None when the sub-task is not included;
\* else the sub-task's result, the default (quality, aircraft) or None
\* (airline, registration) when that result is None.
BatchField(task, inc, r) ==
    IF ~inc[task]
    THEN None
    ELSE IF r # None
         THEN ToReview(task, r)
         ELSE CASE task = "quality" -> DefaultQuality
                [] task = "aircraft" -> DefaultAircraft
                [] OTHER -> None

\* The item appended for a failed load.
LoadErrorItem(idx, err) ==
    [index |-> idx, success |-> FALSE, data |-> None, error |-> err]

\* One iteration of the loop with an except path that appends the item
\* without clearing its success flag.
BuildItem_unflagged(idx, errors, map, inc) ==
    IF errors[idx + 1] # None
    THEN LoadErrorItem(idx, errors[idx + 1])
    ELSE LET rr == ReviewResult(
                      BatchField("quality", inc, ResultAt(Get(map, "quality"), idx)),
                      BatchField("aircraft", inc, ResultAt(Get(map, "aircraft"), idx)),
                      BatchField("airline", inc, ResultAt(Get(map, "airline"), idx)),
                      BatchField("registration", inc, ResultAt(Get(map, "registration"), idx)))
         IN IF rr.ok
            THEN [index |-> idx, success |-> TRUE, data |-> rr.val, error |-> None]
            ELSE [index |-> idx, success |-> TRUE, data |-> None,
                  error |-> Str("Review failed")]

\* One iteration of the `for idx, image_input in enumerate(image_inputs)` loop:
\* the item appended for 0-based position idx.
BuildItem(idx, errors, map, inc) ==
    IF errors[idx + 1] # None
    THEN LoadErrorItem(idx, errors[idx + 1])
    ELSE LET rr == ReviewResult(
                      BatchField("quality", inc, ResultAt(Get(map, "quality"), idx)),
                      BatchField("aircraft", inc, ResultAt(Get(map, "aircraft"), idx)),
                      BatchField("airline", inc, ResultAt(Get(map, "airline"), idx)),
                      BatchField("registration", inc, ResultAt(Get(map, "registration"), idx)))
         IN IF rr.ok
            THEN [index |-> idx, success |-> TRUE, data |-> rr.val, error |-> None]
            ELSE [index |-> idx, success |-> FALSE, data |-> None,
                  error |-> Str("Review failed")]

\* Appended with the load-error path leaving the iteration before its append.
Appended_skip(idx, errors, map, inc) ==
    IF errors[idx + 1] # None THEN <<>> ELSE <<BuildItem(idx, errors, map, inc)>>

\* What one iteration of the loop appends to `results`: exactly one item, on
\* the load-error path (`continue`), the success path and the except path.
Appended(idx, errors, map, inc) == <<BuildItem(idx, errors, map, inc)>>

\* `results` after the loop over the n inputs.
RECURSIVE BuildResults(_, _, _, _)
BuildResults(n, errors, map, inc) ==
    IF n = 0
    THEN <<>>
    ELSE BuildResults(n - 1, errors, map, inc) \o Appended(n - 1, errors, map, inc)

\* Sequences over S of length 0..n.
SeqsUpTo(S, n) == UNION {[1..k -> S] : k \in 0..n}

\* A client calls review_batch(image_inputs, include_*); the loads are handed
\* to the executor.
BatchCall ==
    /\ pc = "idle"
    /\ \E inps \in SeqsUpTo(BatchInputs, MaxBatch), fl \in AllFlags :
          /\ image_inputs' = inps
          /\ include' = fl
          /\ loaded_results' = [i \in 1..Len(inps) |-> Pending]
    /\ pc' = "b_load"
    /\ UNCHANGED <<taskState, taskResult, results, ret, raised, loadCalls, adapterCalls, callThreads>>
    /\ UNCHANGED <<reviewVars, subVars, factoryVars, statsVars, otherVars>>

\* One load_image_async completes, in any order; an exception escaping it
\* would leave the first gather() and review_batch.
BatchLoad(i) ==
    /\ pc = "b_load"
    /\ ~loaded_results[i].done
    /\ loadCalls' = loadCalls + 1
    /\ LET r == load_image_async(image_inputs[i]) IN
          IF r.ok
          THEN /\ loaded_results' = [loaded_results EXCEPT ![i] = r.val]
               /\ UNCHANGED <<pc, raised>>
          ELSE /\ raised' = r.exc
               /\ pc' = "b_raised"
               /\ UNCHANGED loaded_results
    /\ UNCHANGED <<include, image_inputs, taskState, taskResult, results, ret,
                   adapterCalls, callThreads>>
    /\ UNCHANGED <<reviewVars, subVars, factoryVars, statsVars, otherVars>>

\* gather() of the loads returned; the coroutines of the enabled sub-tasks are
\* created and handed to the second gather().
BatchDispatch ==
    /\ pc = "b_load"
    /\ \A i \in 1..Len(loaded_results) : loaded_results[i].done
    /\ taskState' = [t \in Tasks |-> IF include[t] THEN "created" ELSE "off"]
    /\ pc' = "b_tasks"
    /\ UNCHANGED <<include, image_inputs, loaded_results, taskResult, results, ret,
                   raised, loadCalls, adapterCalls, callThreads>>
    /\ UNCHANGED <<reviewVars, subVars, factoryVars, statsVars, otherVars>>

TaskIndex(t) == CHOOSE k \in 1..Len(TaskOrder) : TaskOrder[k] = t

\* Whether the coroutine of `task` suspends: run_quality and run_registration
\* always await run_in_executor; _classify_batch awaits it unless no image is
\* loaded, when it returns in its first step.
Awaits(task, images) ==
    task \in {"quality", "registration"} \/ ValidIndices(images, 1) # <<>>

\* The coroutines awaited one after the other, each to completion before the
\* next is started.
Scheduled_sequential(t, step) ==
    IF step = "start"
    THEN \A u \in Tasks : TaskIndex(u) < TaskIndex(t) => taskState[u] \in {"off", "done"}
    ELSE TRUE

\* When the event loop runs a step of the coroutine of t.  gather() schedules
\* the first step of every coroutine, in the order of the tasks list, before
\* review_batch suspends; the completion of an executor future is scheduled
\* behind them, so no coroutine is resumed before each has made its first step.
Scheduled(t, step) ==
    IF step = "start"
    THEN \A u \in Tasks : TaskIndex(u) < TaskIndex(t) => taskState[u] # "created"
    ELSE \A u \in Tasks : taskState[u] # "created"

\* The first step of the coroutine of t: up to its run_in_executor await, or
\* to its return when it does not await.
TaskStart(t) ==
    /\ pc = "b_tasks"
    /\ taskState[t] = "created"
    /\ Scheduled(t, "start")
    /\ IF Awaits(t, Images(loaded_results))
       THEN /\ taskState' = [taskState EXCEPT ![t] = "running"]
            /\ UNCHANGED taskResult
       ELSE /\ taskState' = [taskState EXCEPT ![t] = "done"]
            /\ taskResult' = [taskResult EXCEPT
                                  ![t] = _classify_batch(t, Images(loaded_results),
                                                         <<>>, "return")]
    /\ UNCHANGED <<pc, include, image_inputs, loaded_results, results,
                   ret, raised, loadCalls, adapterCalls, callThreads>>
    /\ UNCHANGED <<reviewVars, subVars, factoryVars, statsVars, otherVars>>

\* The batch routine of a started sub-task ran on an executor thread and its
\* coroutine is resumed with a list or an exception.
TaskFinish(t) ==
    /\ pc = "b_tasks"
    /\ taskState[t] = "running"
    /\ Scheduled(t, "finish")
    /\ \E b \in TaskBehaviours(t, Images(loaded_results)) :
          /\ taskResult' = [taskResult EXCEPT
                                ![t] = RunTask(t, Images(loaded_results), b.outs, b.whole)]
          /\ adapterCalls' = [adapterCalls EXCEPT
                                ![t] = @ \o BatchCalls(t, Images(loaded_results), b.whole)]
          /\ callThreads' = IF BatchCalls(t, Images(loaded_results), b.whole) = <<>>
                            THEN callThreads
                            ELSE OnThread(t, "pool")
    /\ taskState' = [taskState EXCEPT ![t] = "done"]
    /\ UNCHANGED <<pc, include, image_inputs, loaded_results, results, ret, raised,
                   loadCalls>>
    /\ UNCHANGED <<reviewVars, subVars, factoryVars, statsVars, otherVars>>

\* gather(..., return_exceptions=True) returned: every enabled sub-task has a
\* result or an exception.
BatchJoin ==
    /\ pc = "b_tasks"
    /\ \A t \in Tasks : taskState[t] \in {"off", "done"}
    /\ pc' = "b_build"
    /\ UNCHANGED <<include, image_inputs, loaded_results, taskState, taskResult,
                   results, ret, raised, loadCalls, adapterCalls, callThreads>>
    /\ UNCHANGED <<reviewVars, subVars, factoryVars, statsVars, otherVars>>

\* The final loop and `return results`: one item appended per iteration.
BatchBuild ==
    /\ pc = "b_build"
    /\ results' = BuildResults(Len(image_inputs), ImageErrors(loaded_results),
                               ResultsMap(include, taskResult), include)
    /\ ret' = List(results')
    /\ pc' = "b_done"
    /\ UNCHANGED <<include, image_inputs, loaded_results, taskState, taskResult,
                   raised, loadCalls, adapterCalls, callThreads>>
    /\ UNCHANGED <<reviewVars, subVars, factoryVars, statsVars, otherVars>>

BatchNext ==
    \/ BatchCall
    \/ \E i \in 1..Len(loaded_results) : BatchLoad(i)
    \/ BatchDispatch
    \/ \E t \in Tasks : TaskStart(t)
    \/ \E t \in Tasks : TaskFinish(t)
    \/ BatchJoin
    \/ BatchBuild

SpecBatch == Init /\ [][BatchNext]_vars

-----------------------------------------------------------------------------
(* The sub-task batch routines step by step: _assess_batch (a loop),
   _classify_batch (one predict call on the compacted batch, then the zip
   loop), _recognize_batch (one future per slot on a thread pool, collected
   in submission order).  s_routine is the sub-task whose routine runs. *)

Slots == {Image("A"), Image("B"), None}

NoneList(n) == [i \in 1..n |-> None]

Queued == [done |-> FALSE, idx |-> 0, result |-> None]

\* A caller hands a list of loaded images and None slots to a batch routine.
SubCall ==
    /\ pc = "idle"
    /\ \E t \in Tasks, imgs \in SeqsUpTo(Slots, MaxBatch) :
          /\ s_routine' = t
          /\ s_images' = imgs
          /\ s_results' = NoneList(Len(imgs))
          /\ s_futures' = [i \in 1..Len(imgs) |-> Queued]
          /\ pc' = CASE t = "quality" -> "s_assess"
                     [] t = "registration" -> "s_pool"
                     [] OTHER -> "s_classify"
    /\ UNCHANGED <<s_batch, s_i, include, ret, raised, loadCalls, adapterCalls, callThreads>>
    /\ UNCHANGED <<reviewVars, batchVars, factoryVars, statsVars, otherVars>>

\* _assess_batch: one iteration of `for i, image in enumerate(images)`.
AssessStep ==
    /\ pc = "s_assess"
    /\ s_i < Len(s_images)
    /\ \E o \in AdapterOutcomes :
          /\ s_images[s_i + 1] = None => o = "ok"
          /\ s_results' = [s_results EXCEPT
                               ![s_i + 1] = SlotResult("quality", s_images[s_i + 1], o)]
    /\ adapterCalls' = IF s_images[s_i + 1] = None
                       THEN adapterCalls
                       ELSE LogCall("quality", <<s_images[s_i + 1]>>)
    /\ callThreads' = IF s_images[s_i + 1] = None
                       THEN callThreads
                       ELSE OnThread("quality", "pool")
    /\ s_i' = s_i + 1
    /\ UNCHANGED <<pc, s_routine, s_images, s_batch, s_futures, include, ret, raised,
                   loadCalls>>
    /\ UNCHANGED <<reviewVars, batchVars, factoryVars, statsVars, otherVars>>

\* _classify_batch up to the zip loop: the early return when no image is
\* loaded, else the predict call on the compacted batch in the executor.
ClassifyPredict ==
    /\ pc = "s_classify"
    /\ IF ValidIndices(s_images, 1) = <<>>
       THEN /\ ret' = List(NoneList(Len(s_images)))
            /\ pc' = "s_done"
            /\ UNCHANGED <<raised, s_batch, adapterCalls, callThreads>>
       ELSE /\ adapterCalls' = LogCall(s_routine, BatchImages(s_images))
            /\ callThreads' = OnThread(s_routine, "pool")
            /\ \E b \in TaskBehaviours(s_routine, s_images) :
                  IF b.whole = "raise"
                  THEN /\ raised' = Raise("RuntimeError", s_routine).exc
                       /\ pc' = "s_raised"
                       /\ UNCHANGED <<ret, s_batch>>
                  ELSE /\ s_batch' = List(Predict(s_routine, s_images, b.outs))
                       /\ pc' = "s_wrap"
                       /\ UNCHANGED <<ret, raised>>
    /\ UNCHANGED <<s_routine, s_images, s_results, s_futures, s_i, include, loadCalls>>
    /\ UNCHANGED <<reviewVars, batchVars, factoryVars, statsVars, otherVars>>

\* _classify_batch: one iteration of `for idx, result in zip(indices, batch_results)`.
ClassifyWrap ==
    /\ pc = "s_wrap"
    /\ s_i < Len(ValidIndices(s_images, 1))
    /\ s_i < Len(s_batch.items)
    /\ s_results' = [s_results EXCEPT
                        ![ScatterIndex(ValidIndices(s_images, 1), s_i + 1)] =
                            WrapSlot(s_batch.items[s_i + 1])]
    /\ s_i' = s_i + 1
    /\ UNCHANGED <<pc, s_routine, s_images, s_batch, s_futures, include, ret, raised,
                   loadCalls, adapterCalls, callThreads>>
    /\ UNCHANGED <<reviewVars, batchVars, factoryVars, statsVars, otherVars>>

\* recognize_with_index(idx, image) on a pool thread: (idx, result).
recognize_with_index(idx, img, o) ==
    [done |-> TRUE, idx |-> idx, result |-> SlotResult("registration", img, o)]

\* _recognize_batch: a pool thread runs the future of slot i; the futures
\* complete in any order.
RecognizeWorker(i) ==
    /\ pc = "s_pool"
    /\ ~s_futures[i].done
    /\ \E o \in AdapterOutcomes :
          /\ s_images[i] = None => o = "ok"
          /\ s_futures' = [s_futures EXCEPT ![i] = recognize_with_index(i, s_images[i], o)]
    /\ adapterCalls' = IF s_images[i] = None
                       THEN adapterCalls
                       ELSE LogCall("registration", <<s_images[i]>>)
    /\ callThreads' = IF s_images[i] = None
                       THEN callThreads
                       ELSE OnThread("registration", "pool")
    /\ UNCHANGED <<pc, s_routine, s_images, s_results, s_batch, s_i, include, ret,
                   raised, loadCalls>>
    /\ UNCHANGED <<reviewVars, batchVars, factoryVars, statsVars, otherVars>>

\* _recognize_batch: one iteration of `for future in futures`, which blocks
\* until that future is done: results[idx] = result.
RecognizeCollect ==
    /\ pc = "s_pool"
    /\ s_i < Len(s_futures)
    /\ s_futures[s_i + 1].done
    /\ s_results' = [s_results EXCEPT ![s_futures[s_i + 1].idx] = s_futures[s_i + 1].result]
    /\ s_i' = s_i + 1
    /\ UNCHANGED <<pc, s_routine, s_images, s_batch, s_futures, include, ret, raised,
                   loadCalls, adapterCalls, callThreads>>
    /\ UNCHANGED <<reviewVars, batchVars, factoryVars, statsVars, otherVars>>

\* Whether the routine's loop is over.
LoopDone ==
    CASE pc = "s_assess" -> s_i = Len(s_images)
      [] pc = "s_pool" -> s_i = Len(s_futures)
      [] pc = "s_wrap" -> s_i >= Len(ValidIndices(s_images, 1)) \/ s_i >= Len(s_batch.items)
      [] OTHER -> FALSE

\* return results
SubReturn ==
    /\ LoopDone
    /\ ret' = List(s_results)
    /\ pc' = "s_done"
    /\ UNCHANGED <<s_routine, s_images, s_results, s_batch, s_futures, s_i, include,
                   raised, loadCalls, adapterCalls, callThreads>>
    /\ UNCHANGED <<reviewVars, batchVars, factoryVars, statsVars, otherVars>>

SubNext ==
    \/ SubCall
    \/ AssessStep
    \/ ClassifyPredict
    \/ ClassifyWrap
    \/ \E i \in 1..Len(s_futures) : RecognizeWorker(i)
    \/ RecognizeCollect
    \/ SubReturn

SpecSub == Init /\ [][SubNext]_vars

-----------------------------------------------------------------------------
(* InferenceFactory (app/inference/factory.py): the lazily constructed adapter
   singletons.  Each thread makes one call: a getter or preload_models(); reset()
   runs beside them. *)

\* The adapter types, in the order preload_models() calls their getters.
PreloadOrder == <<"aircraft", "airline", "registration", "quality">>

\* The object the n-th constructor run of an adapter type creates.
Obj(a, n) == [tag |-> "Adapter", type |-> a, id |-> n]

InferenceFactoryError ==
    Raise("InferenceFactoryError", "aerovision_inference package not available")

\* What the adapter's constructor can do: return the object, or raise (a
\* missing or unreadable model file).
ConstructorOutcomes == {"ok", "raise"}

factoryFrame == <<pc, include, ret, raised, loadCalls, adapterCalls, callThreads,
                  reviewVars, batchVars, subVars, statsVars, otherVars>>

\* The module is imported: INFERENCE_AVAILABLE tells whether
\* aerovision_inference could be imported.
FactoryImport ==
    /\ ~f_imported
    /\ f_imported' = TRUE
    /\ INFERENCE_AVAILABLE' \in BOOLEAN
    /\ UNCHANGED <<f_instance, f_lock, f_constructed, f_wasReset, f_pc,
                   f_call, f_ret>>
    /\ UNCHANGED factoryFrame

\* preload_models() without its own availability check: the first getter's
\* exception leaves it.
WhenUnavailable_propagated(op) == InferenceFactoryError

\* What a call does when the package is unavailable: a getter raises
\* InferenceFactoryError, preload_models() logs a warning and returns.
WhenUnavailable(op) == IF op = "getter" THEN InferenceFactoryError ELSE Ok(None)

\* The first check of a getter, outside the lock: where the caller goes next.
FirstCheck(a) == IF f_instance[a] = None THEN "wait" ELSE "return"

\* A thread calls a getter or preload_models(): the availability check and,
\* for a getter, the first check of the cached instance.
FactoryCall(th) ==
    /\ f_imported
    /\ f_pc[th] = "idle"
    /\ \/ \E a \in Tasks :
             /\ f_call' = [f_call EXCEPT ![th] = [op |-> "getter", adapter |-> a, step |-> 0]]
             /\ IF ~INFERENCE_AVAILABLE
                THEN /\ f_ret' = [f_ret EXCEPT ![th] = WhenUnavailable("getter")]
                     /\ f_pc' = [f_pc EXCEPT ![th] = "done"]
                ELSE /\ f_pc' = [f_pc EXCEPT ![th] = FirstCheck(a)]
                     /\ UNCHANGED f_ret
       \/ /\ f_call' = [f_call EXCEPT
                            ![th] = [op |-> "preload", adapter |-> PreloadOrder[1], step |-> 1]]
          /\ IF ~INFERENCE_AVAILABLE
             THEN /\ f_ret' = [f_ret EXCEPT ![th] = WhenUnavailable("preload")]
                  /\ f_pc' = [f_pc EXCEPT ![th] = "done"]
             ELSE /\ f_pc' = [f_pc EXCEPT ![th] = FirstCheck(PreloadOrder[1])]
                  /\ UNCHANGED f_ret
    /\ UNCHANGED <<INFERENCE_AVAILABLE, f_imported, f_instance, f_lock, f_constructed,
                   f_wasReset>>
    /\ UNCHANGED factoryFrame

\* The lock taken without the second check of the cached instance.
FactoryAcquire_unchecked(th) ==
    /\ f_pc[th] = "wait"
    /\ f_lock[f_call[th].adapter] = 0
    /\ f_lock' = [f_lock EXCEPT ![f_call[th].adapter] = th]
    /\ f_pc' = [f_pc EXCEPT ![th] = "construct"]
    /\ UNCHANGED <<INFERENCE_AVAILABLE, f_imported, f_instance, f_constructed,
                   f_wasReset, f_call, f_ret>>
    /\ UNCHANGED factoryFrame

\* `with cls._x_lock:` and the second check: the thread keeps the lock to
\* construct, or leaves the block at once when another thread has constructed.
FactoryAcquire(th) ==
    /\ f_pc[th] = "wait"
    /\ f_lock[f_call[th].adapter] = 0
    /\ IF f_instance[f_call[th].adapter] = None
       THEN /\ f_lock' = [f_lock EXCEPT ![f_call[th].adapter] = th]
            /\ f_pc' = [f_pc EXCEPT ![th] = "construct"]
       ELSE /\ f_pc' = [f_pc EXCEPT ![th] = "return"]
            /\ UNCHANGED f_lock
    /\ UNCHANGED <<INFERENCE_AVAILABLE, f_imported, f_instance, f_constructed,
                   f_wasReset, f_call, f_ret>>
    /\ UNCHANGED factoryFrame

\* The constructor with an exception that leaves the lock held.
FactoryConstruct_leak(th) ==
    /\ f_pc[th] = "construct"
    /\ LET a == f_call[th].adapter IN
       \E o \in ConstructorOutcomes :
          /\ f_constructed' = [f_constructed EXCEPT ![a] = Append(@, o)]
          /\ IF o = "ok"
             THEN /\ f_instance' = [f_instance EXCEPT
                                        ![a] = Obj(a, Len(f_constructed[a]) + 1)]
                  /\ f_lock' = [f_lock EXCEPT ![a] = 0]
                  /\ f_pc' = [f_pc EXCEPT ![th] = "return"]
                  /\ UNCHANGED f_ret
             ELSE /\ f_ret' = [f_ret EXCEPT ![th] = Raise("RuntimeError", a)]
                  /\ f_pc' = [f_pc EXCEPT ![th] = "done"]
                  /\ UNCHANGED <<f_instance, f_lock>>
    /\ UNCHANGED <<INFERENCE_AVAILABLE, f_imported, f_wasReset, f_call>>
    /\ UNCHANGED factoryFrame

\* The constructor runs under the lock.  Its object is cached and the lock
\* released; its exception leaves the `with` block, which releases the lock,
\* and the getter (and a preload_models() that called it).
FactoryConstruct(th) ==
    /\ f_pc[th] = "construct"
    /\ LET a == f_call[th].adapter IN
       \E o \in ConstructorOutcomes :
          /\ f_constructed' = [f_constructed EXCEPT ![a] = Append(@, o)]
          /\ f_lock' = [f_lock EXCEPT ![a] = 0]
          /\ IF o = "ok"
             THEN /\ f_instance' = [f_instance EXCEPT
                                        ![a] = Obj(a, Len(f_constructed[a]) + 1)]
                  /\ f_pc' = [f_pc EXCEPT ![th] = "return"]
                  /\ UNCHANGED f_ret
             ELSE /\ f_ret' = [f_ret EXCEPT ![th] = Raise("RuntimeError", a)]
                  /\ f_pc' = [f_pc EXCEPT ![th] = "done"]
                  /\ UNCHANGED f_instance
    /\ UNCHANGED <<INFERENCE_AVAILABLE, f_imported, f_wasReset, f_call>>
    /\ UNCHANGED factoryFrame

\* `return cls._x`: the cached instance as it is now.  preload_models() drops
\* it and calls the next getter, or returns None after the last.
FactoryReturn(th) ==
    /\ f_pc[th] = "return"
    /\ LET c == f_call[th] IN
       IF c.op = "getter"
       THEN /\ f_ret' = [f_ret EXCEPT ![th] = Ok(f_instance[c.adapter])]
            /\ f_pc' = [f_pc EXCEPT ![th] = "done"]
            /\ UNCHANGED f_call
       ELSE IF c.step < Len(PreloadOrder)
            THEN /\ f_call' = [f_call EXCEPT
                                   ![th] = [c EXCEPT !.adapter = PreloadOrder[c.step + 1],
                                                     !.step = c.step + 1]]
                 /\ f_pc' = [f_pc EXCEPT ![th] = FirstCheck(PreloadOrder[c.step + 1])]
                 /\ UNCHANGED f_ret
            ELSE /\ f_ret' = [f_ret EXCEPT ![th] = Ok(None)]
                 /\ f_pc' = [f_pc EXCEPT ![th] = "done"]
                 /\ UNCHANGED f_call
    /\ UNCHANGED <<INFERENCE_AVAILABLE, f_imported, f_instance, f_lock, f_constructed,
                   f_wasReset>>
    /\ UNCHANGED factoryFrame

\* A thread calls reset(): four assignments, made without any lock.  A
\* getter reads only the attribute of its own adapter type, so the four are
\* modelled as one step.
FactoryReset ==
    /\ f_imported
    /\ f_instance' = [a \in Tasks |-> None]
    /\ f_wasReset' = TRUE
    /\ UNCHANGED <<INFERENCE_AVAILABLE, f_imported, f_lock, f_constructed, f_pc,
                   f_call, f_ret>>
    /\ UNCHANGED factoryFrame

FactoryNext ==
    \/ FactoryImport
    \/ \E th \in Threads : FactoryCall(th)
    \/ \E th \in Threads : FactoryAcquire(th)
    \/ \E th \in Threads : FactoryConstruct(th)
    \/ \E th \in Threads : FactoryReturn(th)
    \/ FactoryReset

SpecFactory == Init /\ [][FactoryNext]_vars

-----------------------------------------------------------------------------
(* RedisStatsManager (app/core/redis_client.py): the request counters kept in
   the shared store.  A key holds a string or is absent (None); a pipeline is
   a MULTI/EXEC transaction, executed by the store as one step or, when the
   store is unreachable, not at all. *)

\* int(x) of a counter the read returned, 0 when the key is absent.
IntOf(v) == IF v = None THEN 0 ELSE v.val

\* INCR key.
Incr(v) == Str(IntOf(v) + 1)

\* The first INCR of the pipeline alone.
IncrPipeline_split(st, success) == [st EXCEPT !["request_count"] = Incr(@)]

\* The increment pipeline: INCR stats:request_count and INCR of the success
\* or the error counter.
IncrPipeline(st, success) ==
    [st EXCEPT !["request_count"] = Incr(@),
               ![IF success THEN "success_count" ELSE "error_count"] = Incr(@)]

\* What a command sent to an unreachable store raises in the client.
ConnectionError == Raise("ConnectionError", "store unreachable")

\* A read that raised, after `n` increment_request_count calls.
Failed(n) == [ok |-> FALSE, exc |-> ConnectionError.exc, after |-> n]

\* request_count / uptime, 0 when uptime is not positive.
Rate(n, uptime) == IF uptime > 0 THEN [num |-> n, den |-> uptime] ELSE [num |-> 0, den |-> 1]

\* The dictionary get_request_stats returns from what the pipeline read.
Stats(snap, start_time, t) ==
    [total_requests |-> IntOf(snap["request_count"]),
     successful_requests |-> IntOf(snap["success_count"]),
     failed_requests |-> IntOf(snap["error_count"]),
     uptime_seconds |-> t - start_time,
     requests_per_second |-> Rate(IntOf(snap["request_count"]), t - start_time)]

\* The dictionary get_request_stats returns when the store raised.
Unavailable ==
    [total_requests |-> 0, successful_requests |-> 0, failed_requests |-> 0,
     uptime_seconds |-> 0, requests_per_second |-> Rate(0, 0),
     error |-> "Redis unavailable"]

statsFrame == <<pc, include, ret, raised, loadCalls, adapterCalls, callThreads,
                reviewVars, batchVars, subVars, factoryVars, otherVars>>

\* The shared store becomes unreachable, or reachable again.
StoreDown ==
    /\ store_up
    /\ store_up' = FALSE
    /\ UNCHANGED <<store, now, applied, cleared, attempts, st_pc, st_snap, st_ret, st_raised>>
    /\ UNCHANGED statsFrame

StoreUp ==
    /\ ~store_up
    /\ store_up' = TRUE
    /\ UNCHANGED <<store, now, applied, cleared, attempts, st_pc, st_snap, st_ret, st_raised>>
    /\ UNCHANGED statsFrame

\* Time passes.
Tick ==
    /\ now < MaxTime
    /\ now' = now + 1
    /\ UNCHANGED <<store, store_up, applied, cleared, attempts, st_pc, st_snap, st_ret, st_raised>>
    /\ UNCHANGED statsFrame

\* increment_request_count without its try/except.
StatsIncrement_unguarded(w, success) ==
    /\ attempts < MaxIncrements
    /\ attempts' = attempts + 1
    /\ IF store_up
       THEN /\ store' = IncrPipeline(store, success)
            /\ applied' = [applied EXCEPT
                               !["request_count"] = @ + 1,
                               ![IF success THEN "success_count" ELSE "error_count"] = @ + 1]
            /\ UNCHANGED st_raised
       ELSE /\ st_raised' = [st_raised EXCEPT ![w] = ConnectionError.exc]
            /\ UNCHANGED <<store, applied>>
    /\ UNCHANGED <<store_up, now, cleared, st_pc, st_snap, st_ret>>
    /\ UNCHANGED statsFrame

\* increment_request_count whose increment reaches the store although the
\* store was unreachable when it was attempted (kept locally and replayed).
StatsIncrement_buffered(w, success) ==
    /\ attempts < MaxIncrements
    /\ attempts' = attempts + 1
    /\ store' = IncrPipeline(store, success)
    /\ IF store_up
       THEN applied' = [applied EXCEPT
                            !["request_count"] = @ + 1,
                            ![IF success THEN "success_count" ELSE "error_count"] = @ + 1]
       ELSE UNCHANGED applied
    /\ UNCHANGED <<store_up, now, cleared, st_pc, st_snap, st_ret, st_raised>>
    /\ UNCHANGED statsFrame

\* increment_request_count(success) in worker w: the pipeline is executed by
\* the store, or its exception is logged and the increment is gone.
StatsIncrement(w, success) ==
    /\ attempts < MaxIncrements
    /\ attempts' = attempts + 1
    /\ IF store_up
       THEN /\ store' = IncrPipeline(store, success)
            /\ applied' = [applied EXCEPT
                               !["request_count"] = @ + 1,
                               ![IF success THEN "success_count" ELSE "error_count"] = @ + 1]
       ELSE UNCHANGED <<store, applied>>
    /\ UNCHANGED <<store_up, now, cleared, st_pc, st_snap, st_ret, st_raised>>
    /\ UNCHANGED statsFrame

\* get_request_stats() in worker w, up to the first await after the read: the
\* pipeline of four GETs.  With a start time in the store the dictionary is
\* built at once; without one the worker goes on to set it; an unreachable
\* store gives the zero dictionary.
StatsRead(w) ==
    /\ st_pc[w] = "idle"
    /\ IF store_up
       THEN /\ st_snap' = [st_snap EXCEPT ![w] = Ok([vals |-> store, seen |-> applied, cleared |-> cleared])]
            /\ IF store["start_time"] = None
               THEN /\ st_pc' = [st_pc EXCEPT ![w] = "set"]
                    /\ st_ret' = [st_ret EXCEPT ![w] = None]
               ELSE /\ st_ret' = [st_ret EXCEPT
                                      ![w] = Stats(store, IntOf(store["start_time"]), now)]
                    /\ UNCHANGED st_pc
       ELSE /\ st_snap' = [st_snap EXCEPT ![w] = Failed(attempts)]
            /\ st_ret' = [st_ret EXCEPT ![w] = Unavailable]
            /\ UNCHANGED st_pc
    /\ UNCHANGED <<store, store_up, now, applied, cleared, attempts, st_raised>>
    /\ UNCHANGED statsFrame

\* get_request_stats() after a read that found no start time:
\* SET stats:start_time to the current time, and the dictionary.
StatsSetStart(w) ==
    /\ st_pc[w] = "set"
    /\ IF store_up
       THEN /\ store' = [store EXCEPT !["start_time"] = Str(now)]
            /\ st_ret' = [st_ret EXCEPT ![w] = Stats(st_snap[w].val.vals, now, now)]
            /\ UNCHANGED st_snap
       ELSE /\ st_snap' = [st_snap EXCEPT ![w] = Failed(attempts)]
            /\ st_ret' = [st_ret EXCEPT ![w] = Unavailable]
            /\ UNCHANGED store
    /\ st_pc' = [st_pc EXCEPT ![w] = "idle"]
    /\ UNCHANGED <<store_up, now, applied, cleared, attempts, st_raised>>
    /\ UNCHANGED statsFrame

\* reset_stats() that deletes the three counters and keeps the start time.
StatsReset_partial ==
    /\ IF store_up
       THEN /\ store' = [k \in Keys |-> IF k = "start_time" THEN store[k] ELSE None]
            /\ applied' = NoIncrements
            /\ cleared' = (cleared \/ applied # NoIncrements)
       ELSE UNCHANGED <<store, applied, cleared>>
    /\ UNCHANGED <<store_up, now, attempts, st_pc, st_snap, st_ret, st_raised>>
    /\ UNCHANGED statsFrame

\* reset_stats(): the pipeline of four DELs, or its exception logged.
StatsReset ==
    /\ IF store_up
       THEN /\ store' = [k \in Keys |-> None]
            /\ applied' = NoIncrements
            /\ cleared' = (cleared \/ applied # NoIncrements)
       ELSE UNCHANGED <<store, applied, cleared>>
    /\ UNCHANGED <<store_up, now, attempts, st_pc, st_snap, st_ret, st_raised>>
    /\ UNCHANGED statsFrame

StatsNext ==
    \/ StoreDown
    \/ StoreUp
    \/ Tick
    \/ \E w \in Workers, success \in BOOLEAN : StatsIncrement(w, success)
    \/ \E w \in Workers : StatsRead(w)
    \/ \E w \in Workers : StatsSetStart(w)
    \/ StatsReset

SpecStats == Init /\ [][StatsNext]_vars

Next == ReviewNext \/ BatchNext \/ SubNext

Spec == Init /\ [][Next]_vars

-----------------------------------------------------------------------------
(* Properties of review_batch *)

\* The value a sub-task's field takes in an item when the sub-task's result
\* for the item is absent: the default for the mandatory fields, null for
\* the optional ones.
Degraded(task) ==
    CASE task = "quality" -> DefaultQuality
      [] task = "aircraft" -> DefaultAircraft
      [] OTHER -> None

\* The value a sub-task's field takes when computed from image `img`.
FieldFrom(task, img) == ToReview(task, ResultOf(task, img))

\* The 1-based positions of the inputs, and whether input i loads.
Positions == 1..Len(image_inputs)

Loads(i) == load_image(image_inputs[i]).ok

\* C1: review_batch returns exactly one item per input, and the item at
\* position i carries index i (0-based), whichever of the load-error,
\* success and per-item exception paths each item took.
C1_OneItemPerInput ==
    pc = "b_done" =>
        /\ Len(ret.items) = Len(image_inputs)
        /\ \A i \in 1..Len(ret.items) : ret.items[i].index = i - 1

\* A finished batch whose first input failed to load and whose second input
\* produced a success item.
C1_Witness ==
    /\ pc = "b_done"
    /\ Len(image_inputs) >= 2
    /\ ~Loads(1)
    /\ ret.items[1].error # None
    /\ ret.items[2].success

\* C2: for every combination of the include flags, every input that loaded
\* yields a success item whose data has Quality and Aircraft present.
C2_LoadedItemSucceeds ==
    pc = "b_done" =>
        \A i \in Positions :
            Loads(i) =>
                /\ ret.items[i].success
                /\ ret.items[i].data # None
                /\ ret.items[i].data.quality # None
                /\ ret.items[i].data.aircraft # None

\* The same with both mandatory sub-tasks included: every loaded input yields
\* a success item built by the default policy of the single-item pipeline.
C2_WhenMandatoryIncluded ==
    (pc = "b_done" /\ include["quality"] /\ include["aircraft"]) =>
        \A i \in Positions :
            Loads(i) =>
                /\ ret.items[i].success
                /\ ret.items[i].error = None
                /\ \A t \in Tasks :
                      ret.items[i].data[t] \in
                          IF include[t]
                          THEN {FieldFrom(t, load_image(image_inputs[i]).val), Degraded(t)}
                          ELSE {None}

C4_TaskFailureIsolated ==
    /\ pc # "b_raised"
    /\ pc = "b_done" =>
          \A t \in Tasks :
              (include[t] /\ ~taskResult[t].ok) =>
                  \A i \in Positions :
                      Loads(i) =>
                          /\ ret.items[i].success
                          /\ ret.items[i].data[t] = Degraded(t)
                          /\ \A u \in Tasks \ {t} :
                                (include[u] /\ taskResult[u].ok) =>
                                    ret.items[i].data[u] =
                                        BatchField(u, include, taskResult[u].val[i])

\* The same with both mandatory sub-tasks included.
C4_WhenMandatoryIncluded ==
    (include["quality"] /\ include["aircraft"]) => C4_TaskFailureIsolated

-----------------------------------------------------------------------------
(* Properties of review *)

ReviewAfterLoad ==
    {"r_quality", "r_aircraft", "r_airline", "r_registration", "r_build", "r_done"}

\* C5: a review that returns has a non-null Quality and a non-null Aircraft;
\* Quality is exactly {score 0.0, pass false, details null} when the quality
\* adapter raised, returned nothing or was not enabled, and Aircraft is
\* exactly {type_code "UNKNOWN", confidence 0.0} likewise.
C5_MandatoryDefaults ==
    pc = "r_done" =>
        /\ ret.quality # None
        /\ ret.aircraft # None
        /\ outcomes["quality"] # "ok" =>
              /\ ret.quality.score = 0
              /\ ret.quality.pass_ = FALSE
              /\ ret.quality.details = None
        /\ outcomes["aircraft"] # "ok" =>
              /\ ret.aircraft.type_code = "UNKNOWN"
              /\ ret.aircraft.confidence = 0

\* A returned review whose quality adapter raised and whose aircraft
\* sub-task was not enabled.
C5_Witness ==
    /\ pc = "r_done"
    /\ outcomes["quality"] = "raise"
    /\ ~include["aircraft"]
    /\ ret.quality = DefaultQuality
    /\ ret.aircraft.type_code = "UNKNOWN"

\* C6: a review that returns has a null Airline (Registration) whenever the
\* airline (registration) adapter raised, returned nothing or was not enabled.
C6_OptionalNull ==
    pc = "r_done" =>
        /\ outcomes["airline"] # "ok" => ret.airline = None
        /\ outcomes["registration"] # "ok" => ret.registration = None

\* A returned review whose airline adapter raised and whose registration
\* sub-task was not enabled.
C6_Witness ==
    /\ pc = "r_done"
    /\ outcomes["airline"] = "raise"
    /\ ~include["registration"]
    /\ ret.airline = None
    /\ ret.registration = None

\* C7: a review whose image loaded ends by returning, with every enabled
\* adapter invoked exactly once, on the loaded image, and no disabled adapter
\* invoked, whichever adapters raised.
C7_EachEnabledAdapterOnce ==
    (pc \in {"r_done", "r_raised"} /\ load_image(image_input).ok) =>
        /\ pc = "r_done"
        /\ \A t \in Tasks :
              adapterCalls[t] = IF include[t] THEN <<(<<image>>)>> ELSE <<>>

\* A returned review with all four sub-tasks enabled whose first two adapters
\* failed and whose last adapter was still invoked.
C7_Witness ==
    /\ pc = "r_done"
    /\ \A t \in Tasks : include[t]
    /\ outcomes["quality"] = "raise"
    /\ outcomes["aircraft"] = "invalid"
    /\ Len(adapterCalls["registration"]) = 1

\* C8: review raises only when the image cannot be acquired: it then raises
\* the load error with no adapter invoked, and it goes past the load only
\* when the load succeeded.
C8_RaisesOnlyOnLoadFailure ==
    /\ pc = "r_raised" =>
          /\ ~load_image(image_input).ok
          /\ raised = load_image(image_input).exc
          /\ adapterCalls = NoCalls
    /\ pc \in ReviewAfterLoad => load_image(image_input).ok

\* A review with every sub-task enabled that raised the load error.
C8_Witness ==
    /\ pc = "r_raised"
    /\ \A t \in Tasks : include[t]
    /\ raised.type = "ImageLoadError"

\* C9: review performs exactly one load_image call and review_batch exactly
\* one per input, however many sub-tasks are enabled, and every adapter is
\* handed loaded images only.
C9_ImageLoadedOnce ==
    /\ pc \in ReviewAfterLoad \cup {"r_raised"} =>
          /\ loadCalls = 1
          /\ \A t \in Tasks : \A k \in 1..Len(adapterCalls[t]) :
                adapterCalls[t][k] = <<image>>
    /\ pc \in {"b_tasks", "b_build", "b_done"} =>
          /\ loadCalls = Len(image_inputs)
          /\ \A t \in Tasks : \A k \in 1..Len(adapterCalls[t]) :
                \A j \in 1..Len(adapterCalls[t][k]) :
                    /\ adapterCalls[t][k][j] # None
                    /\ \E i \in Positions : adapterCalls[t][k][j] = loaded_results[i].image

\* A finished batch of at least two loaded inputs with all four sub-tasks
\* enabled, each of which invoked its adapter.
C9_Witness ==
    /\ pc = "b_done"
    /\ Len(image_inputs) >= 2
    /\ \A i \in Positions : Loads(i)
    /\ \A t \in Tasks : include[t] /\ adapterCalls[t] # <<>>
    /\ loadCalls = Len(image_inputs)

-----------------------------------------------------------------------------
(* Properties of the sub-task batch routines *)

\* C10: a batch routine never invokes its adapter on a None slot; the list it
\* returns has one slot per input slot, None wherever the input slot is None,
\* and a non-None result in slot i is the sub-task's result on the image of
\* input slot i.
C10_SlotsPreserved ==
    /\ \A t \in Tasks : \A k \in 1..Len(adapterCalls[t]) :
          \A j \in 1..Len(adapterCalls[t][k]) : adapterCalls[t][k][j] # None
    /\ pc = "s_done" =>
          /\ Len(ret.items) = Len(s_images)
          /\ \A i \in 1..Len(s_images) :
                /\ s_images[i] = None => ret.items[i] = None
                /\ ret.items[i] # None => ret.items[i] = ResultOf(s_routine, s_images[i])

\* A classifier routine that returned a result in the slot after a None slot.
C10_Witness ==
    /\ pc = "s_done"
    /\ s_routine = "aircraft"
    /\ Len(s_images) >= 2
    /\ s_images[1] = None
    /\ ret.items[2] # None

-----------------------------------------------------------------------------
(* Properties of InferenceFactory *)

\* The thread's getter call for adapter type a is over.
GetterDone(th, a) ==
    f_pc[th] = "done" /\ f_call[th].op = "getter" /\ f_call[th].adapter = a

\* The number of constructor runs of adapter type a that returned an object.
Built(a) == Cardinality({k \in 1..Len(f_constructed[a]) : f_constructed[a][k] = "ok"})

\* C11 as stated: with the package available and no reset, under concurrent first calls of a getter
\* the constructor of each adapter type runs at most once and every caller
\* that receives an instance receives the same one.
C11_ConstructedOnce ==
    (INFERENCE_AVAILABLE /\ ~f_wasReset) =>
        \A a \in Tasks :
            /\ Len(f_constructed[a]) <= 1
            /\ \A th1, th2 \in Threads :
                  (/\ GetterDone(th1, a) /\ f_ret[th1].ok
                   /\ GetterDone(th2, a) /\ f_ret[th2].ok)
                  => f_ret[th1].val = f_ret[th2].val

\* C11 as amended: with the package available and no reset, the constructor of each adapter type
\* returns an object at most once and never runs in two threads at a time; a
\* run that raises caches nothing, its caller gets the exception, and the next
\* caller runs the constructor again; every caller that is returned an
\* instance receives the same one, the cached instance.
C11_ConstructedOnceUnlessRaised ==
    (INFERENCE_AVAILABLE /\ ~f_wasReset) =>
        \A a \in Tasks :
            /\ Built(a) <= 1
            /\ \A k \in 1..(Len(f_constructed[a]) - 1) : f_constructed[a][k] = "raise"
            /\ Cardinality({th \in Threads :
                                f_pc[th] = "construct" /\ f_call[th].adapter = a}) <= 1
            /\ (f_instance[a] = None) = (Built(a) = 0)
            /\ \A th \in Threads :
                  GetterDone(th, a) =>
                      IF f_ret[th].ok
                      THEN f_ret[th].val # None /\ f_ret[th].val = f_instance[a]
                      ELSE /\ f_ret[th] = Raise("RuntimeError", a)
                           /\ Len(f_constructed[a]) > Built(a)

\* Two threads raced on the first call of one getter: one has returned the
\* instance, the other passed the first check before it was cached and waits
\* for the lock.
C11_Witness ==
    /\ ~f_wasReset
    /\ \E a \in Tasks : \E th1, th2 \in Threads :
          /\ GetterDone(th1, a) /\ f_ret[th1].ok
          /\ f_pc[th2] = "wait" /\ f_call[th2].adapter = a

\* C12: when the inference package is unavailable, every getter raises
\* InferenceFactoryError without taking a lock, constructing or caching
\* anything, and preload_models() returns None without raising.
C12_UnavailableRaises ==
    (f_imported /\ ~INFERENCE_AVAILABLE) =>
        /\ \A a \in Tasks :
              f_instance[a] = None /\ f_lock[a] = 0 /\ f_constructed[a] = <<>>
        /\ \A th \in Threads :
              /\ f_pc[th] \in {"idle", "done"}
              /\ f_pc[th] = "done" =>
                    IF f_call[th].op = "getter"
                    THEN /\ ~f_ret[th].ok
                         /\ f_ret[th].exc.type = "InferenceFactoryError"
                         /\ f_ret[th].exc.type \notin {"RuntimeError", "ValidationError"}
                    ELSE f_ret[th] = Ok(None)

\* With the package unavailable, one thread's getter and another thread's
\* preload_models() are both over.
C12_Witness ==
    /\ f_imported /\ ~INFERENCE_AVAILABLE
    /\ \E th1, th2 \in Threads :
          /\ f_pc[th1] = "done" /\ f_call[th1].op = "getter"
          /\ f_pc[th2] = "done" /\ f_call[th2].op = "preload"

-----------------------------------------------------------------------------
(* Properties of the request counters *)

Counters == {"request_count", "success_count", "error_count"}

\* Worker w has a dictionary from get_request_stats without the error flag.
NormalRead(w) == st_ret[w] # None /\ "error" \notin DOMAIN st_ret[w]

\* C13: with the store unreachable no stats call lets an exception reach its
\* caller, and a read returns total = successful = failed = 0 with the
\* "error" flag; a read that reached the store carries no flag.
C13_UnreachableReadsZero ==
    \A w \in Workers :
        /\ st_raised[w] = None
        /\ st_ret[w] # None =>
              IF st_snap[w].ok
              THEN "error" \notin DOMAIN st_ret[w]
              ELSE /\ st_ret[w].total_requests = 0
                   /\ st_ret[w].successful_requests = 0
                   /\ st_ret[w].failed_requests = 0
                   /\ "error" \in DOMAIN st_ret[w]

\* Every increment was attempted against the unreachable store and dropped,
\* and a read made after them returned the flagged zero dictionary.
C13_Witness ==
    /\ ~store_up
    /\ attempts = MaxIncrements
    /\ applied = NoIncrements /\ ~cleared
    /\ \E w \in Workers :
          /\ st_ret[w] # None
          /\ ~st_snap[w].ok
          /\ st_snap[w].after = MaxIncrements

\* A step of increment_request_count against the unreachable store.
DroppedStep == attempts' = attempts + 1 /\ ~store_up

OneIncrement ==
    /\ IntOf(store'["request_count"]) = IntOf(store["request_count"]) + 1
    /\ \/ /\ IntOf(store'["success_count"]) = IntOf(store["success_count"]) + 1
          /\ store'["error_count"] = store["error_count"]
       \/ /\ IntOf(store'["error_count"]) = IntOf(store["error_count"]) + 1
          /\ store'["success_count"] = store["success_count"]

\* C15: between resets each executed increment raises the total and exactly
\* one of the success and failure counters by 1 in one step, no counter
\* decreases, and every read observes total = successful + failed.
C15_AtomicIncrement ==
    /\ [](IntOf(store["request_count"])
            = IntOf(store["success_count"]) + IntOf(store["error_count"]))
    /\ [](\A w \in Workers :
            st_ret[w] # None =>
                st_ret[w].total_requests
                    = st_ret[w].successful_requests + st_ret[w].failed_requests)
    /\ [][\/ \A k \in Counters : store'[k] = store[k]
          \/ \A k \in Keys : store'[k] = None
          \/ OneIncrement]_vars

\* A read reports a successful and a failed request.
C15_Witness ==
    \E w \in Workers :
        /\ NormalRead(w)
        /\ st_ret[w].successful_requests >= 1
        /\ st_ret[w].failed_requests >= 1

\* C16: reset_stats deletes the four keys in one step (no step deletes some
\* of them and leaves others), after it the counters are absent until the
\* next increment, and a read made after a reset with no increment in
\* between reports the three counters as 0.
C16_ResetAtomic ==
    /\ [][(\E k \in Keys : store[k] # None /\ store'[k] = None)
            => \A k \in Keys : store'[k] = None]_vars
    /\ [](applied = NoIncrements => \A k \in Counters : store[k] = None)
    /\ [](\A w \in Workers :
            (NormalRead(w) /\ st_snap[w].val.seen = NoIncrements) =>
                /\ st_ret[w].total_requests = 0
                /\ st_ret[w].successful_requests = 0
                /\ st_ret[w].failed_requests = 0)

\* A reset deleted counters, and a read made when no increment had been
\* executed since the last reset reported zeros.
C16_Witness ==
    \E w \in Workers :
        /\ NormalRead(w)
        /\ st_snap[w].val.cleared
        /\ st_snap[w].val.seen = NoIncrements
        /\ st_ret[w].total_requests = 0

\* C17: once an increment has been executed by the reachable store (since
\* the last reset), the start-time marker is set in the store.
C17_InitializedOnFirstUse ==
    applied["request_count"] > 0 => store["start_time"] # None

-----------------------------------------------------------------------------
(* Properties of the dispatch of the sub-tasks *)

\* No coroutine that awaited its batch call has been resumed while the
\* coroutine of another enabled sub-task has not made its first step.
StartedBeforeJoined ==
    \A t \in Tasks :
        (taskState[t] = "done" /\ Awaits(t, Images(loaded_results)))
        => \A u \in Tasks : taskState[u] # "created"

\* C18: in review_batch every enabled sub-task is started before any of
\* them is awaited to completion, and the join completes only when every
\* enabled sub-task has finished or failed.
C18_SubTasksConcurrent ==
    /\ StartedBeforeJoined
    /\ pc \in {"b_build", "b_done"} =>
          \A t \in Tasks : include[t] => (taskState[t] = "done" /\ taskResult[t] # None)

\* The batch calls of all four sub-tasks are in flight at the same time, on
\* a batch with a loaded image.
C18_Witness ==
    /\ pc = "b_tasks"
    /\ \A t \in Tasks : taskState[t] = "running"
    /\ ValidIndices(Images(loaded_results), 1) # <<>>

\* C19: for one item, in review as in review_batch, no enabled sub-task
\* has completed while another enabled sub-task has not been started.
C19_FanOut ==
    /\ \A t, u \in Tasks :
          (include[t] /\ include[u] /\ outcomes[t] # "unset") => outcomes[u] # "unset"
    /\ StartedBeforeJoined

\* C20: no adapter invocation made for the single-item or the batch
\* endpoint runs on the event loop thread.
C20_AdaptersOffLoop ==
    \A t \in Tasks : "loop" \notin callThreads[t]

-----------------------------------------------------------------------------
(* Properties of load_image *)

\* C30: load_image either returns a decoded image or raises ImageLoadError,
\* for a URL, a data-URL payload and raw base64 alike: whenever review
\* raised out of its load, the exception is an ImageLoadError.
C30_OnlyImageLoadError ==
    /\ pc = "r_raised" => raised.type = "ImageLoadError"
    /\ image_input # None =>
          (load_image(image_input).ok \/ load_image(image_input).exc.type = "ImageLoadError")

-----------------------------------------------------------------------------
(* Properties of the start-time marker *)

\* C27: between two resets the start-time marker is written at most once:
\* a step that finds the marker set leaves it as it is, or deletes it
\* (a reset); no read overwrites it.
C27_StartTimeWrittenOnce ==
    [][store["start_time"] # None =>
          store'["start_time"] \in {store["start_time"], None}]_vars

-----------------------------------------------------------------------------
(* Properties of the getters under reset and under a raising constructor *)

\* C28: with the inference package available, a getter that returns
\* normally never returns None, whatever other getters and reset() do
\* in other threads.
C28_GetterNeverReturnsNone ==
    INFERENCE_AVAILABLE =>
        \A th \in Threads : \A a \in Tasks :
            (GetterDone(th, a) /\ f_ret[th].ok) => f_ret[th].val # None

\* The lock of adapter type a is held only by a thread that is running a's
\* constructor right now.
HeldWhileConstructing(a) ==
    f_lock[a] # 0 => (f_pc[f_lock[a]] = "construct" /\ f_call[f_lock[a]].adapter = a)

\* A step in which thread th leaves the constructor with an exception.
ConstructorRaised(th) == f_pc[th] = "construct" /\ f_pc'[th] = "done"

\* C29: a constructor that raises inside a getter hands its exception to
\* that caller, caches nothing and releases the adapter's lock, so that a
\* later caller of the same getter takes the lock and constructs again; the
\* locks and instances of the other adapter types and the other threads are
\* left as they were.
C29_ConstructorRaiseReleases ==
    /\ [](\A a \in Tasks :
             /\ HeldWhileConstructing(a)
             /\ f_instance[a] # None => Built(a) >= 1
             /\ \A th \in Threads :
                   (INFERENCE_AVAILABLE /\ GetterDone(th, a) /\ ~f_ret[th].ok)
                   => (f_ret[th] = Raise("RuntimeError", a) /\ Len(f_constructed[a]) > Built(a)))
    /\ [][\A th \in Threads :
             ConstructorRaised(th) =>
                LET a == f_call[th].adapter IN
                /\ f_ret'[th] = Raise("RuntimeError", a)
                /\ f_instance' = f_instance
                /\ f_lock' = [f_lock EXCEPT ![a] = 0]
                /\ \A u \in Threads \ {th} : f_pc'[u] = f_pc[u] /\ f_ret'[u] = f_ret[u]]_vars

\* The constructor of one adapter type raised in one thread's getter, and a
\* second thread's call of the same getter then took the lock, constructed
\* and returned the instance.
C29_Witness ==
    \E a \in Tasks : \E th1, th2 \in Threads :
        /\ f_constructed[a] = <<"raise", "ok">>
        /\ GetterDone(th1, a) /\ f_ret[th1] = Raise("RuntimeError", a)
        /\ GetterDone(th2, a) /\ f_ret[th2].ok /\ f_ret[th2].val = Obj(a, 2)
        /\ f_lock[a] = 0

-----------------------------------------------------------------------------
(* Properties of the items of a batch *)

\* C24: every item returned by review_batch is a success or a failure and
\* never both or neither: success true goes with data set and error null,
\* success false with data null and error a string.
C24_ItemSuccessXorFailure ==
    pc = "b_done" =>
        \A i \in 1..Len(ret.items) :
            IF ret.items[i].success
            THEN ret.items[i].data # None /\ ret.items[i].error = None
            ELSE /\ ret.items[i].data = None
                 /\ ret.items[i].error # None
                 /\ ret.items[i].error.tag = "str"

\* A finished batch with an item whose image did not load next to an item
\* whose reassembly raised.
C24_Witness ==
    /\ pc = "b_done"
    /\ \E i, j \in 1..Len(ret.items) :
          /\ ~Loads(i)
          /\ ~ret.items[i].success
          /\ Loads(j)
          /\ ~ret.items[j].success
          /\ ret.items[j].error = Str("Review failed")

-----------------------------------------------------------------------------
(* The result as a function of the request *)

\* Every adapter invoked by review returned its result on the image.
StubReview == \A t \in Tasks : include[t] => outcomes[t] = "ok"

\* Every sub-task of review_batch returned, for each image handed to it,
\* the adapter's result on that image.
StubBatch ==
    \A t \in Tasks :
        include[t] =>
            taskResult[t] = RunTask(t, Images(loaded_results),
                                    [i \in 1..Len(loaded_results) |-> "ok"], "return")

\* The ReviewResult of review for an input and flags.
ExpectedReview(input, inc) ==
    [tag |-> "ReviewResult",
     quality |-> IF inc["quality"]
                 THEN FieldFrom("quality", load_image(input).val) ELSE DefaultQuality,
     aircraft |-> IF inc["aircraft"]
                  THEN FieldFrom("aircraft", load_image(input).val) ELSE DefaultAircraft,
     airline |-> IF inc["airline"]
                 THEN FieldFrom("airline", load_image(input).val) ELSE None,
     registration |-> IF inc["registration"]
                      THEN FieldFrom("registration", load_image(input).val) ELSE None]

\* The item of review_batch for the input at 0-based position idx.
ExpectedItem(idx, input, inc) ==
    IF ~load_image(input).ok
    THEN LoadErrorItem(idx, Str(load_image(input).exc.msg))
    ELSE IF inc["quality"] /\ inc["aircraft"]
         THEN [index |-> idx, success |-> TRUE, error |-> None,
               data |-> [tag |-> "ReviewResult",
                         quality |-> FieldFrom("quality", load_image(input).val),
                         aircraft |-> FieldFrom("aircraft", load_image(input).val),
                         airline |-> IF inc["airline"]
                                     THEN FieldFrom("airline", load_image(input).val)
                                     ELSE None,
                         registration |-> IF inc["registration"]
                                          THEN FieldFrom("registration", load_image(input).val)
                                          ELSE None]]
         ELSE [index |-> idx, success |-> FALSE, data |-> None,
               error |-> Str("Review failed")]

-----------------------------------------------------------------------------
(* An adapter invocation that never returns *)

\* The sub-task whose block review() is about to run.
BlockTask ==
    CASE pc = "r_quality" -> "quality"
      [] pc = "r_aircraft" -> "aircraft"
      [] pc = "r_airline" -> "airline"
      [] OTHER -> "registration"

\* review() invokes an enabled adapter and the call never returns: review()
\* runs its blocks one after the other on the calling thread and waits for
\* the call with no time limit.
ReviewHang ==
    /\ pc \in {"r_quality", "r_aircraft", "r_airline", "r_registration"}
    /\ include[BlockTask]
    /\ adapterCalls' = LogCall(BlockTask, <<image>>)
    /\ callThreads' = OnThread(BlockTask, "loop")
    /\ outcomes' = [outcomes EXCEPT ![BlockTask] = "hang"]
    /\ pc' = "r_hung"
    /\ UNCHANGED <<image_input, include, image, quality_result, aircraft_result,
                   airline_result, registration_result, ret, raised, loadCalls>>
    /\ UNCHANGED <<batchVars, subVars, factoryVars, statsVars, otherVars>>

\* The batch call of sub-task t is running in the executor and never
\* returns: its run_in_executor future never completes, and the coroutine of
\* t stays suspended at its await.
TaskHang(t) ==
    /\ pc = "b_tasks"
    /\ taskState[t] = "running"
    /\ Scheduled(t, "finish")
    /\ taskState' = [taskState EXCEPT ![t] = "hung"]
    /\ adapterCalls' = [adapterCalls EXCEPT
                          ![t] = @ \o BatchCalls(t, Images(loaded_results), "return")]
    /\ callThreads' = OnThread(t, "pool")
    /\ UNCHANGED <<pc, include, image_inputs, loaded_results, taskResult, results, ret,
                   raised, loadCalls>>
    /\ UNCHANGED <<reviewVars, subVars, factoryVars, statsVars, otherVars>>

HangNext ==
    \/ ReviewHang
    \/ \E t \in Tasks : TaskHang(t)

\* The review service with adapters that may hang.  The event loop and the
\* executor threads run every step that can run.
SpecHang ==
    /\ Init
    /\ [][ReviewNext \/ BatchNext \/ HangNext]_vars
    /\ WF_vars(ReviewNext \/ BatchNext)

\* C21: a request whose adapter invocation never returns still completes:
\* every call of review and of review_batch eventually returns (or raises
\* its load error).
C21_HungAdapterStillCompletes ==
    [](pc # "idle" => <>(pc \in {"r_done", "r_raised", "b_done", "b_raised"}))

-----------------------------------------------------------------------------
(* The route handlers review_image and review_batch *)

Endpoints == {"review", "batch"}

\* What a call made inside the handler's try block can do.
CallOutcomes == {"return", "raise"}

routeFrame == <<pc, include, ret, raised, loadCalls, adapterCalls, callThreads,
                reviewVars, batchVars, subVars, factoryVars, historyVars, poolVars>>

\* increment_request_count(success) called by the handler of worker w: the
\* increment pipeline, or its exception logged when the store is unreachable.
RouteIncrement(w, success) ==
    /\ rt_counted' = [rt_counted EXCEPT ![w] = Append(@, success)]
    /\ attempts' = attempts + 1
    /\ IF store_up
       THEN /\ store' = IncrPipeline(store, success)
            /\ applied' = [applied EXCEPT
                               !["request_count"] = @ + 1,
                               ![IF success THEN "success_count" ELSE "error_count"] = @ + 1]
       ELSE UNCHANGED <<store, applied>>

\* A request reaches the handler of an endpoint in worker w.
RouteCall(w) ==
    /\ rt_pc[w] = "idle"
    /\ \E ep \in Endpoints : rt_call' = [rt_call EXCEPT ![w] = ep]
    /\ rt_pc' = [rt_pc EXCEPT ![w] = "service"]
    /\ UNCHANGED <<rt_counted, rt_ret, statsVars>>
    /\ UNCHANGED routeFrame

\* try: _service.review(...) / await _service.review_batch(...): it returns,
\* or its exception is caught by the handler's `except Exception`.
RouteService(w) ==
    /\ rt_pc[w] = "service"
    /\ \E o \in CallOutcomes :
          rt_pc' = [rt_pc EXCEPT
                       ![w] = IF o = "raise" THEN "count_fail"
                              ELSE IF rt_call[w] = "batch" THEN "items" ELSE "count_ok"]
    /\ UNCHANGED <<rt_call, rt_counted, rt_ret, statsVars>>
    /\ UNCHANGED routeFrame

\* review_batch only: results = [BatchReviewItem(**r) for r in service_results],
\* a validation that passes or raises, and the two counts.
RouteItems(w) ==
    /\ rt_pc[w] = "items"
    /\ \E o \in CallOutcomes :
          rt_pc' = [rt_pc EXCEPT ![w] = IF o = "raise" THEN "count_fail" ELSE "count_ok"]
    /\ UNCHANGED <<rt_call, rt_counted, rt_ret, statsVars>>
    /\ UNCHANGED routeFrame

\* increment_request_count(success=True), inside the try block.
RouteCountSuccess(w) ==
    /\ rt_pc[w] = "count_ok"
    /\ RouteIncrement(w, TRUE)
    /\ rt_pc' = [rt_pc EXCEPT ![w] = "respond"]
    /\ UNCHANGED <<rt_call, rt_ret, store_up, now, cleared, st_pc, st_snap, st_ret, st_raised>>
    /\ UNCHANGED routeFrame

\* return ReviewResponse(**result.model_dump(by_alias=True), meta=Meta(...)) /
\* return BatchReviewResponse(...): still inside the try block; the response
\* object is built and returned, or building it raises and the exception is
\* caught by the same `except Exception`.
RouteRespond(w) ==
    /\ rt_pc[w] = "respond"
    /\ \E o \in CallOutcomes :
          IF o = "return"
          THEN /\ rt_ret' = [rt_ret EXCEPT ![w] = Ok(Str("200"))]
               /\ rt_pc' = [rt_pc EXCEPT ![w] = "done"]
          ELSE /\ rt_pc' = [rt_pc EXCEPT ![w] = "count_fail"]
               /\ UNCHANGED rt_ret
    /\ UNCHANGED <<rt_call, rt_counted, statsVars>>
    /\ UNCHANGED routeFrame

\* except Exception: increment_request_count(success=False) and
\* raise HTTPException(500).
RouteCountFailure(w) ==
    /\ rt_pc[w] = "count_fail"
    /\ RouteIncrement(w, FALSE)
    /\ rt_ret' = [rt_ret EXCEPT ![w] = Raise("HTTPException", "500")]
    /\ rt_pc' = [rt_pc EXCEPT ![w] = "done"]
    /\ UNCHANGED <<rt_call, store_up, now, cleared, st_pc, st_snap, st_ret, st_raised>>
    /\ UNCHANGED routeFrame

RouteNext ==
    \/ \E w \in Workers : RouteCall(w)
    \/ \E w \in Workers : RouteService(w)
    \/ \E w \in Workers : RouteItems(w)
    \/ \E w \in Workers : RouteCountSuccess(w)
    \/ \E w \in Workers : RouteRespond(w)
    \/ \E w \in Workers : RouteCountFailure(w)
    \/ StoreDown
    \/ StoreUp

SpecRoute == Init /\ [][RouteNext]_vars

\* The requests whose handler has ended.
Handled == {w \in Workers : rt_pc[w] = "done"}

\* C26: each handled request to a review endpoint updates the counters
\* exactly once: its handler makes one increment, and when the store was
\* reachable throughout and every handler has ended, the total is the number
\* of handled requests and so is the sum of the success and failure counters.
C26_CountedExactlyOnce ==
    /\ \A w \in Handled : Len(rt_counted[w]) = 1
    /\ (attempts = applied["request_count"] /\ \A w \in Workers : rt_pc[w] \in {"idle", "done"})
       => /\ IntOf(store["request_count"]) = Cardinality(Handled)
          /\ IntOf(store["success_count"]) + IntOf(store["error_count"]) = Cardinality(Handled)

-----------------------------------------------------------------------------
(* HistoryService.push_records *)

\* The bound on the number of records of one push.
MaxRecords == 2

\* What happens to one record: it is added, or it fails at one of the
\* steps of the loop body.
RecordKinds == {"added", "no_image", "load_error", "no_predictor", "embed_error",
                "add_false", "exception"}

\* What a call does before the loop: the vector database is there, or the
\* predictor is None or has no vector_db.
Availability == {"available", "unavailable"}

AerovisionException(code) == Raise("AerovisionException", code)

historyFrame == <<pc, include, ret, raised, loadCalls, adapterCalls, callThreads,
                  reviewVars, batchVars, subVars, factoryVars, statsVars, routeVars, poolVars>>

\* push_records(records) is called; without a vector database it raises
\* VECTOR_DB_NOT_AVAILABLE before the loop.
HistoryCall ==
    /\ h_pc = "idle"
    /\ \E recs \in SeqsUpTo(RecordKinds, MaxRecords), av \in Availability :
          /\ records' = recs
          /\ IF av = "available"
             THEN /\ h_pc' = "loop"
                  /\ UNCHANGED h_ret
             ELSE /\ h_pc' = "raised"
                  /\ h_ret' = AerovisionException("VECTOR_DB_NOT_AVAILABLE")
    /\ UNCHANGED <<h_i, added_count, failed_count>>
    /\ UNCHANGED historyFrame

\* The loop body with a missing-image path that leaves the iteration
\* without counting the record.
RecordOutcome_uncounted(kind) ==
    IF kind = "no_image" THEN "skipped"
    ELSE IF kind = "added" THEN "added"
    ELSE "failed"

\* The path one record takes through the body of `for record in records`,
\* in the order of the code: no image data (failed_count += 1; continue),
\* the image does not load (likewise), the predictor is None (likewise), the
\* embedding raises (likewise), any other exception is caught by the
\* iteration's own except (failed_count += 1), add_record returns False
\* (failed_count += 1) or True (added_count += 1).
RecordOutcome(kind) ==
    IF kind = "no_image" THEN "failed"
    ELSE IF kind = "load_error" THEN "failed"
    ELSE IF kind = "no_predictor" THEN "failed"
    ELSE IF kind = "embed_error" THEN "failed"
    ELSE IF kind = "exception" THEN "failed"
    ELSE IF kind = "add_false" THEN "failed"
    ELSE "added"

\* One iteration of the loop.
HistoryRecord ==
    /\ h_pc = "loop"
    /\ h_i < Len(records)
    /\ h_i' = h_i + 1
    /\ added_count' = added_count + (IF RecordOutcome(records[h_i + 1]) = "added" THEN 1 ELSE 0)
    /\ failed_count' = failed_count + (IF RecordOutcome(records[h_i + 1]) = "failed" THEN 1 ELSE 0)
    /\ UNCHANGED <<h_pc, records, h_ret>>
    /\ UNCHANGED historyFrame

\* After the loop: the dictionary is returned.
HistoryReturn ==
    /\ h_pc = "loop"
    /\ h_i = Len(records)
    /\ h_ret' = Ok([success |-> TRUE, total |-> Len(records),
                    added |-> added_count, failed |-> failed_count])
    /\ h_pc' = "done"
    /\ UNCHANGED <<records, h_i, added_count, failed_count>>
    /\ UNCHANGED historyFrame

HistoryNext ==
    \/ HistoryCall
    \/ HistoryRecord
    \/ HistoryReturn

SpecHistory == Init /\ [][HistoryNext]_vars

\* The number of the first n records that are of a kind in K.
RECURSIVE CountKinds(_, _)
CountKinds(n, K) ==
    IF n = 0 THEN 0
    ELSE CountKinds(n - 1, K) + (IF records[n] \in K THEN 1 ELSE 0)

\* C25: with the vector database available, push_records accounts for every
\* record exactly once: it returns total = len(records) and added + failed =
\* total, with every record that can be added added and every other record
\* failed, whatever records failed before it; it does not raise.
C25_EveryRecordAccounted ==
    /\ h_pc = "loop" =>
          /\ added_count + failed_count = h_i
          /\ added_count = CountKinds(h_i, {"added"})
    /\ h_pc = "raised" => h_ret = AerovisionException("VECTOR_DB_NOT_AVAILABLE")
    /\ h_pc = "done" =>
          /\ h_ret.ok
          /\ h_ret.val.total = Len(records)
          /\ h_ret.val.added + h_ret.val.failed = h_ret.val.total
          /\ h_ret.val.added = CountKinds(Len(records), {"added"})
          /\ h_ret.val.failed = CountKinds(Len(records), RecordKinds \ {"added"})

\* A push that returned after a record without image data was followed by
\* a record that was added.
C25_Witness ==
    /\ h_pc = "done"
    /\ Len(records) = 2
    /\ records[1] = "no_image"
    /\ records[2] = "added"
    /\ h_ret.val.added = 1
    /\ h_ret.val.failed = 1

-----------------------------------------------------------------------------
(* The executors the adapters run on *)

\* max_workers of a ThreadPoolExecutor created without arguments, which is
\* also the event loop's default executor: min(32, cpu_count + 4) in the
\* interpreter, a small number here.
PoolSize == 2

poolFrame == <<pc, include, ret, raised, loadCalls, adapterCalls, callThreads,
               reviewVars, batchVars, subVars, factoryVars, statsVars, routeVars,
               historyVars>>

\* The jobs of the default executor that are running.
RunningDefault == {rt \in Requests \X Tasks : p_task[rt[1]][rt[2]] = "running"}

\* review_batch of request r reaches its gather(): the coroutine of each
\* sub-task hands its batch call to the default executor
\* (run_in_executor(None, ...)).  The event loop thread runs these steps.
PoolSubmit(r) ==
    /\ ~l_busy
    /\ \A t \in Tasks : p_task[r][t] = "none"
    /\ \E n \in 1..MaxBatch : p_n' = [p_n EXCEPT ![r] = n]
    /\ p_task' = [p_task EXCEPT ![r] = [t \in Tasks |-> "queued"]]
    /\ UNCHANGED <<p_ocr, l_busy>>
    /\ UNCHANGED poolFrame

\* A free worker of the default executor takes a job.  The job of the
\* registration sub-task is _recognize_batch, which creates an executor of
\* its own and submits one job per image to it.
PoolStart(r, t) ==
    /\ p_task[r][t] = "queued"
    /\ Cardinality(RunningDefault) < PoolSize
    /\ p_task' = [p_task EXCEPT ![r][t] = "running"]
    /\ p_ocr' = IF t = "registration"
                THEN [p_ocr EXCEPT ![r] = [queued |-> p_n[r], running |-> 0, done |-> 0]]
                ELSE p_ocr
    /\ UNCHANGED <<p_n, l_busy>>
    /\ UNCHANGED poolFrame

\* A free worker of the executor of request r's _recognize_batch starts
\* recognize_with_index on one image.
OcrStart(r) ==
    /\ p_ocr[r].queued > 0
    /\ p_ocr[r].running < PoolSize
    /\ p_ocr' = [p_ocr EXCEPT ![r].queued = @ - 1, ![r].running = @ + 1]
    /\ UNCHANGED <<p_task, p_n, l_busy>>
    /\ UNCHANGED poolFrame

\* recognize_with_index returns.
OcrFinish(r) ==
    /\ p_ocr[r].running > 0
    /\ p_ocr' = [p_ocr EXCEPT ![r].running = @ - 1, ![r].done = @ + 1]
    /\ UNCHANGED <<p_task, p_n, l_busy>>
    /\ UNCHANGED poolFrame

\* A job of the default executor returns; _recognize_batch returns when
\* every future of its own executor has a result.
PoolFinish(r, t) ==
    /\ p_task[r][t] = "running"
    /\ t = "registration" => p_ocr[r].done = p_n[r]
    /\ p_task' = [p_task EXCEPT ![r][t] = "done"]
    /\ UNCHANGED <<p_n, p_ocr, l_busy>>
    /\ UNCHANGED poolFrame

\* review_image calls _service.review(...) on the event loop thread: an
\* adapter is invoked there, on no executor.
SingleStart ==
    /\ ~l_busy
    /\ l_busy' = TRUE
    /\ UNCHANGED <<p_task, p_n, p_ocr>>
    /\ UNCHANGED poolFrame

\* The synchronous review() returns.
SingleFinish ==
    /\ l_busy
    /\ l_busy' = FALSE
    /\ UNCHANGED <<p_task, p_n, p_ocr>>
    /\ UNCHANGED poolFrame

PoolNext ==
    \/ \E r \in Requests : PoolSubmit(r)
    \/ \E r \in Requests, t \in Tasks : PoolStart(r, t)
    \/ \E r \in Requests : OcrStart(r)
    \/ \E r \in Requests : OcrFinish(r)
    \/ \E r \in Requests, t \in Tasks : PoolFinish(r, t)
    \/ SingleStart
    \/ SingleFinish

SpecPool == Init /\ [][PoolNext]_vars

RECURSIVE OcrRunning(_)
OcrRunning(n) == IF n = 0 THEN 0 ELSE OcrRunning(n - 1) + p_ocr[n].running

\* The adapter invocations executing now: the quality, aircraft and airline
\* batch calls running in the default executor, the OCR calls running in
\* the executors of the _recognize_batch calls, and the call of a
\* synchronous review() on the event loop thread.
Executing ==
    Cardinality({rt \in RunningDefault : rt[2] # "registration"})
    + OcrRunning(MaxRequests)
    + (IF l_busy THEN 1 ELSE 0)

\* C22: for any number of single and batch requests in flight, the number
\* of adapter invocations executing at the same time is at most the size of
\* the worker pool.
C22_BoundedByPool == Executing <= PoolSize

====
